---------------------------- MODULE Spec2Model ----------------------------
(***************************************************************************)
(* Transaction analytics store (app/_store/useAnalysisStore.ts), and the   *)
(* upload of a statement: the parser store, handleUpload and the parse     *)
(* route (app/_store/useParserStore.ts, app/_hooks/useUploadHandler.ts,    *)
(* app/api/parse/route.ts, app/_utils/index.ts).                           *)
(*                                                                         *)
(* Strings are sequences of one-character strings, so that trimming,       *)
(* lower-casing, substring search and the date / money patterns are        *)
(* computed character by character as the code does.  JavaScript numbers   *)
(* are modelled as fixed-point values with the three non-finite values of  *)
(* IEEE arithmetic; one unit of currency is Unit model units.              *)
(***************************************************************************)
EXTENDS Integers, Sequences, FiniteSets, TLC

VARIABLES raw, filtered, totals, buckets, typeSummary, filters,
          rollingCredit, pc, utcOffset, result,
          file, bank, data, loading, error, password, showPasswordInput, meta, checks,
          rendered, upload, request, route, tempFile, response

\* the analysis store, the time zone and the direct call of a helper
analysisVars == <<raw, filtered, totals, buckets, typeSummary, filters,
                  rollingCredit, pc, utcOffset, result>>

\* the parser store
parserVars == <<file, bank, data, loading, error, password, showPasswordInput, meta, checks>>

\* the parser store, the last render, the running handleUpload, the request
\* and the response in flight, the running route handler and its temp file
uploadVars == <<parserVars, rendered, upload, request, route, tempFile, response>>

vars == <<analysisVars, uploadVars>>

---------------------------------------------------------------------------
(* Bounds of the model *)

\* longest raw row list handed to setRaw
MaxRows == 2

\* largest finite magnitude of a number, in whole currency units
\* (stands for Number.MAX_VALUE: a sum beyond it is Infinity)
MaxMoney == 5000

---------------------------------------------------------------------------
(* Characters and strings *)

\* JavaScript undefined (a missing field) and null; neither is a string
undefined == <<"undefined">>
null == <<"null">>

Falsy(s) == s = <<>> \/ s = undefined \/ s = null

UpperCase == <<"A", "B", "C", "D", "E", "F", "G", "H", "I", "J", "K", "L", "M", "N", "O", "P", "Q", "R", "S", "T", "U", "V", "W", "X", "Y", "Z">>
LowerCase == <<"a", "b", "c", "d", "e", "f", "g", "h", "i", "j", "k", "l", "m", "n", "o", "p", "q", "r", "s", "t", "u", "v", "w", "x", "y", "z">>
DigitChars == <<"0", "1", "2", "3", "4", "5", "6", "7", "8", "9">>

\* UTF-16 code unit order of the characters the model uses
CharOrder == <<"\t", "\n", " ">> \o <<"+", ",", "-", ".", "/">> \o DigitChars \o <<":">> \o UpperCase
             \o <<"_">> \o LowerCase \o <<"|", "₦">>

Code(c) == CHOOSE i \in 1..Len(CharOrder) : CharOrder[i] = c

IsDigit(c) == \E i \in 1..10 : DigitChars[i] = c
DigitVal(c) == (CHOOSE i \in 1..10 : DigitChars[i] = c) - 1
IsUpper(c) == \E i \in 1..26 : UpperCase[i] = c
IsLetter(c) == IsUpper(c) \/ \E i \in 1..26 : LowerCase[i] = c
IsSpace(c) == c \in {" ", "\t", "\n"}
IsWordChar(c) == IsDigit(c) \/ IsLetter(c) \/ c = "_"

\* String.prototype.toLowerCase
toLowerCase(s) ==
  [i \in 1..Len(s) |->
     IF IsUpper(s[i]) THEN LowerCase[CHOOSE k \in 1..26 : UpperCase[k] = s[i]]
     ELSE s[i]]

\* String.prototype.trim
trim(s) ==
  LET idx == {i \in 1..Len(s) : ~IsSpace(s[i])}
  IN IF idx = {} THEN <<>>
     ELSE SubSeq(s, CHOOSE i \in idx : \A j \in idx : i <= j,
                    CHOOSE i \in idx : \A j \in idx : i >= j)

\* String.prototype.includes
includes(s, t) ==
  \E i \in 1..(Len(s) - Len(t) + 1) : SubSeq(s, i, i + Len(t) - 1) = t

\* String.prototype.startsWith
startsWith(s, t) == Len(s) >= Len(t) /\ SubSeq(s, 1, Len(t)) = t

\* a < b on strings: lexicographic by code unit, a proper prefix first
StrLess(a, b) ==
  \E i \in 1..Len(b) :
     /\ \A j \in 1..(i - 1) : j <= Len(a) /\ a[j] = b[j]
     /\ \/ i = Len(a) + 1
        \/ i <= Len(a) /\ Code(a[i]) < Code(b[i])

\* a.localeCompare(b): the sign of the comparison
localeCompare(a, b) == IF StrLess(a, b) THEN -1 ELSE IF StrLess(b, a) THEN 1 ELSE 0

\* String(n).padStart(w, "0") for n >= 0
RECURSIVE NatToStr(_)
NatToStr(n) == IF n < 10 THEN <<DigitChars[n + 1]>>
               ELSE NatToStr(n \div 10) \o <<DigitChars[(n % 10) + 1]>>

RECURSIVE padStart(_, _)
padStart(s, w) == IF Len(s) >= w THEN s ELSE padStart(<<"0">> \o s, w)

\* Number(s) for a string of digits
RECURSIVE DigitsVal(_)
DigitsVal(s) == IF s = <<>> THEN 0
                ELSE 10 * DigitsVal(SubSeq(s, 1, Len(s) - 1)) + DigitVal(s[Len(s)])

AllDigits(s) == \A i \in 1..Len(s) : IsDigit(s[i])

---------------------------------------------------------------------------
(* Numbers *)

\* model units per currency unit: the per-window averages divide by 3 and 6
\* and the combined mean by at most 3, so whole amounts divide exactly
Unit == 3 * 6 * 2

MaxFloat == MaxMoney * Unit

Fin(v) == [k |-> "fin", v |-> v]
PosInf == [k |-> "inf", v |-> 1]
NegInf == [k |-> "inf", v |-> -1]
NaN == [k |-> "nan", v |-> 0]

\* Number.isFinite
isFinite(x) == x.k = "fin"

\* the result of an arithmetic operation whose exact value is v
Round(v) == IF v > MaxFloat THEN PosInf ELSE IF v < -MaxFloat THEN NegInf ELSE Fin(v)

FNeg(a) == IF a.k = "nan" THEN NaN ELSE [k |-> a.k, v |-> -a.v]

\* a + b
FAdd(a, b) ==
  IF a.k = "nan" \/ b.k = "nan" THEN NaN
  ELSE IF a.k = "fin" /\ b.k = "fin" THEN Round(a.v + b.v)
  ELSE IF a.k = "inf" /\ b.k = "inf" THEN (IF a.v = b.v THEN a ELSE NaN)
  ELSE IF a.k = "inf" THEN a ELSE b

\* a - b
FSub(a, b) == FAdd(a, FNeg(b))

\* a / n for a positive integer n
FDiv(a, n) == IF a.k = "fin" THEN Fin(a.v \div n) ELSE a

\* the sign a sort comparator's result is read as (NaN counts as 0)
Sign(a) == IF a.k = "nan" THEN 0
           ELSE IF a.v > 0 THEN 1 ELSE IF a.v < 0 THEN -1 ELSE 0

RECURSIVE ScaleUp(_, _)
ScaleUp(v, e) == IF v = 0 THEN Fin(0)
                 ELSE IF v > MaxFloat THEN PosInf
                 ELSE IF e = 0 THEN Fin(v)
                 ELSE ScaleUp(v * 10, e - 1)

RECURSIVE ScaleDown(_, _)
ScaleDown(v, e) == IF v = 0 \/ e = 0 THEN Fin(v) ELSE ScaleDown(v \div 10, e - 1)

RECURSIVE Pow10(_)
Pow10(n) == IF n = 0 THEN 1 ELSE 10 * Pow10(n - 1)

RECURSIVE StripZeros(_)
StripZeros(s) == IF Len(s) > 1 /\ s[1] = "0" THEN StripZeros(Tail(s)) ELSE s

\* the first position of s that holds a character of C, Len(s) + 1 when none
FirstIndexOf(s, C) ==
  LET at == {i \in 1..Len(s) : s[i] \in C}
  IN IF at = {} THEN Len(s) + 1 ELSE CHOOSE i \in at : \A j \in at : i <= j

\* the value of the fraction digits, at most four of them
FractionUnits(fp) == (DigitsVal(fp) * Unit) \div Pow10(Len(fp))

\* the value of integer digits ip and fraction digits fp
MantissaOf(ip, fp) ==
  IF ~AllDigits(ip) \/ ~AllDigits(fp) \/ Len(ip) + Len(fp) = 0 THEN NaN
  ELSE IF Len(ip) > 6 THEN PosInf
  ELSE Round(DigitsVal(ip) * Unit
             + FractionUnits(SubSeq(fp, 1, IF Len(fp) < 4 THEN Len(fp) ELSE 4)))

MantissaAt(s, dot) ==
  MantissaOf(StripZeros(SubSeq(s, 1, dot - 1)), SubSeq(s, dot + 1, Len(s)))

\* the value of an unsigned decimal literal "ddd", "ddd.ddd", ".ddd", "ddd."
\* (NaN when s is none of these)
Mantissa(s) == MantissaAt(s, FirstIndexOf(s, {"."}))

ExpVal(d) == IF Len(d) > 4 THEN 9999 ELSE DigitsVal(d)

ScaledBy(mant, exNeg, exDigits) ==
  IF exDigits = <<>> \/ ~AllDigits(exDigits) THEN NaN
  ELSE IF mant.k # "fin" THEN mant
  ELSE IF exNeg THEN ScaleDown(mant.v, ExpVal(exDigits))
  ELSE ScaleUp(mant.v, ExpVal(exDigits))

Unsigned(t) == IF t # <<>> /\ t[1] \in {"+", "-"} THEN Tail(t) ELSE t

\* mantissa and exponent part of a literal whose "e" stands at ePos
MagnitudeAt(body, ePos) ==
  IF ePos > Len(body) THEN Mantissa(body)
  ELSE ScaledBy(Mantissa(SubSeq(body, 1, ePos - 1)),
                ePos < Len(body) /\ body[ePos + 1] = "-",
                Unsigned(SubSeq(body, ePos + 1, Len(body))))

Magnitude(body) ==
  IF body = <<"I", "n", "f", "i", "n", "i", "t", "y">> THEN PosInf ELSE MagnitudeAt(body, FirstIndexOf(body, {"e", "E"}))

HexChars == <<"0", "1", "2", "3", "4", "5", "6", "7", "8", "9", "a", "b", "c", "d", "e", "f">>

\* the radix a literal's prefix 0x, 0o, 0b announces, 0 when it has none
RadixOf(t) ==
  IF Len(t) < 3 \/ t[1] # "0" THEN 0
  ELSE IF t[2] \in {"x", "X"} THEN 16
  ELSE IF t[2] \in {"o", "O"} THEN 8
  ELSE IF t[2] \in {"b", "B"} THEN 2
  ELSE 0

\* the digits d are digits of the radix
AllRadixDigits(d, radix) ==
  \A i \in 1..Len(d) : \E k \in 1..radix : HexChars[k] = d[i]

RECURSIVE RadixVal(_, _, _)
RadixVal(d, radix, acc) ==
  IF d = <<>> \/ acc > MaxFloat THEN acc
  ELSE RadixVal(Tail(d), radix,
                acc * radix + (CHOOSE k \in 1..radix : HexChars[k] = d[1]) - 1)

\* the value of the digits of a literal 0x..., 0o..., 0b...
RadixLiteral(d, radix) ==
  IF AllRadixDigits(d, radix) THEN Round(RadixVal(d, radix, 0) * Unit) ELSE NaN

NumberOfTrimmed(t) ==
  IF t = <<>> THEN Fin(0)
  ELSE IF RadixOf(t) # 0 THEN RadixLiteral(toLowerCase(SubSeq(t, 3, Len(t))), RadixOf(t))
  ELSE IF t[1] = "-" THEN FNeg(Magnitude(Unsigned(t)))
  ELSE Magnitude(Unsigned(t))

\* Number(s) for a string s: StringToNumber (optional sign, "Infinity",
\* decimal digits, optional exponent; unsigned 0x, 0o and 0b literals)
Number(s) == NumberOfTrimmed(trim(s))

\* s.replace(/[₦,\s]/g, "")
StripMoneyChars(s) == SelectSeq(s, LAMBDA c : ~(c \in {"₦", ","} \/ IsSpace(c)))

FiniteOrZero(n) == IF isFinite(n) THEN n ELSE Fin(0)

parseMoney(s) == IF Falsy(s) THEN Fin(0) ELSE FiniteOrZero(Number(StripMoneyChars(s)))

\* parseMoney of a number: 0 for the falsy ones (0, NaN), the number otherwise
parseMoneyOfNumber(n) == IF n = Fin(0) \/ n = NaN THEN Fin(0) ELSE n

---------------------------------------------------------------------------
(* Dates *)

\* the value a thrown RangeError is represented by
RangeError == <<"RangeError">>

IsLeap(y) == (y % 4 = 0 /\ y % 100 # 0) \/ y % 400 = 0

DaysInMonth(y, m) ==
  IF m = 2 THEN (IF IsLeap(y) THEN 29 ELSE 28)
  ELSE IF m \in {4, 6, 9, 11} THEN 30 ELSE 31

\* days since 1970-01-01 of a calendar date
DaysFromCivil(y, m, d) ==
  LET yy == IF m <= 2 THEN y - 1 ELSE y
      era == yy \div 400
      yoe == yy - era * 400
      mp == IF m > 2 THEN m - 3 ELSE m + 9
      doy == (153 * mp + 2) \div 5 + d - 1
      doe == yoe * 365 + yoe \div 4 - yoe \div 100 + doy
  IN era * 146097 + doe - 719468

CivilYMD(y, m, d) == <<IF m <= 2 THEN y + 1 ELSE y, m, d>>

CivilFromMp(y, doy, mp) ==
  CivilYMD(y, IF mp < 10 THEN mp + 3 ELSE mp - 9, doy - (153 * mp + 2) \div 5 + 1)

CivilFromDoy(y, doy) == CivilFromMp(y, doy, (5 * doy + 2) \div 153)

CivilFromYoe(era, doe, yoe) ==
  CivilFromDoy(yoe + era * 400, doe - (365 * yoe + yoe \div 4 - yoe \div 100))

CivilFromDoe(era, doe) ==
  CivilFromYoe(era, doe, (doe - doe \div 1460 + doe \div 36524 - doe \div 146096) \div 365)

\* the calendar date <<y, m, d>> of a day number
CivilFromDays(z) == CivilFromDoe((z + 719468) \div 146097, (z + 719468) % 146097)

\* "YYYY-MM-DD" of a calendar date
IsoOf(c) == padStart(NatToStr(c[1]), 4) \o <<"-">> \o padStart(NatToStr(c[2]), 2)
            \o <<"-">> \o padStart(NatToStr(c[3]), 2)

\* Date.prototype.toISOString().slice(0, 10) of the instant that is local
\* midnight of day number localDay: the UTC calendar date of that instant
toISOStringDate(localDay) ==
  IsoOf(CivilFromDays((localDay * 1440 - utcOffset) \div 1440))

\* /^\d{4}-\d{2}-\d{2}$/
IsISOShape(s) ==
  /\ Len(s) = 10
  /\ AllDigits(SubSeq(s, 1, 4)) /\ s[5] = "-"
  /\ AllDigits(SubSeq(s, 6, 7)) /\ s[8] = "-"
  /\ AllDigits(SubSeq(s, 9, 10))

IsWordAt(s, i) == i \in 1..Len(s) /\ IsWordChar(s[i])

\* \b between positions i - 1 and i
Boundary(s, i) == IsWordAt(s, i - 1) # IsWordAt(s, i)

DigitsAt(s, i, n) == i + n - 1 <= Len(s) /\ AllDigits(SubSeq(s, i, i + n - 1))

\* the last position of the longest run of characters satisfying P that
\* starts at i (i - 1 when the run is empty)
RunEnd(s, i, P(_)) ==
  LET stops == {j \in i..Len(s) : ~P(s[j])}
  IN IF stops = {} THEN Len(s)
     ELSE (CHOOSE j \in stops : \A k \in stops : j <= k) - 1

\* /\b(\d{2})[/-](\d{2})[/-](\d{4})\b/ matched at position i
MatchDMY(s, i) ==
  /\ i + 9 <= Len(s)
  /\ Boundary(s, i)
  /\ DigitsAt(s, i, 2) /\ s[i + 2] \in {"/", "-"}
  /\ DigitsAt(s, i + 3, 2) /\ s[i + 5] \in {"/", "-"}
  /\ DigitsAt(s, i + 6, 4)
  /\ Boundary(s, i + 10)

monMap(mon) ==
  CASE mon = <<"j", "a", "n">> -> <<"0", "1">>
    [] mon = <<"f", "e", "b">> -> <<"0", "2">>
    [] mon = <<"m", "a", "r">> -> <<"0", "3">>
    [] mon = <<"a", "p", "r">> -> <<"0", "4">>
    [] mon = <<"m", "a", "y">> -> <<"0", "5">>
    [] mon = <<"j", "u", "n">> -> <<"0", "6">>
    [] mon = <<"j", "u", "l">> -> <<"0", "7">>
    [] mon = <<"a", "u", "g">> -> <<"0", "8">>
    [] mon = <<"s", "e", "p">> -> <<"0", "9">>
    [] mon = <<"s", "e", "p", "t">> -> <<"0", "9">>
    [] mon = <<"o", "c", "t">> -> <<"1", "0">>
    [] mon = <<"n", "o", "v">> -> <<"1", "1">>
    [] mon = <<"d", "e", "c">> -> <<"1", "2">>
    [] OTHER -> null

\* the three runs after the first group are whitespace up to ws1, letters up
\* to mon and whitespace up to ws2
WordsMatchRuns(s, i, nFirst, nLast, ws1, mon, ws2) ==
  IF /\ Boundary(s, i)
     /\ DigitsAt(s, i, nFirst)
     /\ ws1 >= i + nFirst
     /\ mon >= ws1 + 3
     /\ ws2 >= mon + 1
     /\ DigitsAt(s, ws2 + 1, nLast)
  THEN <<ws1 + 1, mon, ws2 + 1>>
  ELSE <<>>

WordsMatchMon(s, i, nFirst, nLast, ws1, mon) ==
  WordsMatchRuns(s, i, nFirst, nLast, ws1, mon, RunEnd(s, mon + 1, IsSpace))

WordsMatchWs(s, i, nFirst, nLast, ws1) ==
  WordsMatchMon(s, i, nFirst, nLast, ws1, RunEnd(s, ws1 + 1, IsLetter))

\* <first> \s+ [A-Za-z]{3,} \s+ <last> with the first group of nFirst digits
\* at position i and the last group of nLast digits: the positions
\* <<month start, month end, last start>>, or <<>> when there is no match
WordsMatch(s, i, nFirst, nLast) ==
  WordsMatchWs(s, i, nFirst, nLast, RunEnd(s, i + nFirst, IsSpace))

\* a match w of the words with its \d{1,2} group n digits long
Tagged(n, w) == IF w = <<>> THEN <<>> ELSE <<n>> \o w

FirstNonEmpty(a, b) == IF a # <<>> THEN a ELSE b

\* /\b(\d{1,2})\s+([A-Za-z]{3,})\s+(\d{4})/ at position i: the day is two
\* digits when two digits stand there (greedy; a lone digit then cannot match,
\* whitespace must follow it), else one
MatchDMonY(s, i) ==
  IF DigitsAt(s, i, 2) THEN Tagged(2, WordsMatch(s, i, 2, 4))
  ELSE Tagged(1, WordsMatch(s, i, 1, 4))

\* /\b(\d{4})\s+([A-Za-z]{3,})\s+(\d{1,2})/ at position i
MatchYMonD(s, i) ==
  FirstNonEmpty(Tagged(2, WordsMatch(s, i, 4, 2)), Tagged(1, WordsMatch(s, i, 4, 1)))

\* the leftmost position at which M matches, 0 when none
FirstMatch(s, M(_, _)) ==
  LET hits == {i \in 1..Len(s) : M(s, i)}
  IN IF hits = {} THEN 0 ELSE CHOOSE i \in hits : \A j \in hits : i <= j

HasDMonY(s, i) == MatchDMonY(s, i) # <<>>
HasYMonD(s, i) == MatchYMonD(s, i) # <<>>

\* the day number of a calendar date written "YYYY-MM-DD"
DayNumber(iso) ==
  DaysFromCivil(DigitsVal(SubSeq(iso, 1, 4)), DigitsVal(SubSeq(iso, 6, 7)),
                DigitsVal(SubSeq(iso, 9, 10)))

\* a local calendar date when it exists, else an Invalid Date (null)
LocalDate(y, m, d) == IF d < 1 \/ d > DaysInMonth(y, m) THEN null ELSE IsoOf(<<y, m, d>>)

DateParseMonth(str, g, mo) ==
  IF mo = null THEN null
  ELSE LocalDate(DigitsVal(SubSeq(str, g[4], g[4] + 3)), DigitsVal(mo),
                 DigitsVal(SubSeq(str, 1, g[1])))

DateParseAt(str, g) ==
  IF g = <<>> \/ g[4] + 3 # Len(str) THEN null
  ELSE DateParseMonth(str, g, monMap(toLowerCase(SubSeq(str, g[2], g[2] + 2))))

\* new Date(str) of the fallback, for the strings the patterns above leave:
\* "<day> <Month name> <year>" is read as a local date, the month by its
\* first three letters; anything else is an Invalid Date (null).
\* The result is the local calendar date, written "YYYY-MM-DD".
DateParse(str) == DateParseAt(str, MatchDMonY(str, 1))

\* js.toISOString().slice(0, 10) unless js is an Invalid Date
FallbackISO(js) == IF js # null THEN toISOStringDate(DayNumber(js)) ELSE null

\* YYYY <Mon> DD found at i with groups g and month number mo
YMonDResult(str, i, g, mo) ==
  IF mo # null
  THEN SubSeq(str, i, i + 3) \o <<"-">> \o mo \o <<"-">>
       \o padStart(SubSeq(str, g[4], g[4] + g[1] - 1), 2)
  ELSE FallbackISO(DateParse(str))

YMonDAt(str, i, g) == YMonDResult(str, i, g, monMap(toLowerCase(SubSeq(str, g[2], g[3]))))

\* e.g. 2025 Jan 01 [HH:MM:SS optional], then the fallback
TryYMonD(str, i) ==
  IF i # 0 THEN YMonDAt(str, i, MatchYMonD(str, i)) ELSE FallbackISO(DateParse(str))

\* DD <Mon> YYYY found at i, the day written as it stands
DMonYResultUnpadded(str, i, g, mo) ==
  IF mo # null
  THEN SubSeq(str, g[4], g[4] + 3) \o <<"-">> \o mo \o <<"-">>
       \o SubSeq(str, i, i + g[1] - 1)
  ELSE null

\* DD <Mon> YYYY found at i with groups g and month number mo
DMonYResult(str, i, g, mo) ==
  IF mo # null
  THEN SubSeq(str, g[4], g[4] + 3) \o <<"-">> \o mo \o <<"-">>
       \o padStart(SubSeq(str, i, i + g[1] - 1), 2)
  ELSE TryYMonD(str, FirstMatch(str, HasYMonD))

DMonYAt(str, i, g) == DMonYResult(str, i, g, monMap(toLowerCase(SubSeq(str, g[2], g[3]))))

\* e.g. 01 Jan 2025 [HH:MM:SS optional], then the later patterns
TryDMonY(str, i) ==
  IF i # 0 THEN DMonYAt(str, i, MatchDMonY(str, i))
  ELSE TryYMonD(str, FirstMatch(str, HasYMonD))

\* e.g. 01/01/2025 or 01-01-2025, then the later patterns
TryDMY(str, i) ==
  IF i # 0
  THEN SubSeq(str, i + 6, i + 9) \o <<"-">> \o SubSeq(str, i + 3, i + 4)
       \o <<"-">> \o SubSeq(str, i, i + 1)
  ELSE TryDMonY(str, FirstMatch(str, HasDMonY))

toISOTrimmed(str) ==
  IF IsISOShape(str) THEN str ELSE TryDMY(str, FirstMatch(str, MatchDMY))

\* Robust date normalizer -> "YYYY-MM-DD" or null
toISO(s) == IF Falsy(s) THEN null ELSE toISOTrimmed(trim(s))

\* new Date(`${iso}T00:00:00`) moved by days (setDate), toISOString().slice(0, 10);
\* toISOString throws a RangeError on an Invalid Date
dateAddDays(iso, days) ==
  LET y == DigitsVal(SubSeq(iso, 1, 4))
      m == DigitsVal(SubSeq(iso, 6, 7))
      d == DigitsVal(SubSeq(iso, 9, 10))
  IN IF m \in 1..12 /\ d \in 1..DaysInMonth(y, m)
     THEN toISOStringDate(DayNumber(iso) + days)
     ELSE RangeError


---------------------------------------------------------------------------
(* Rows, search, period keys, sorting, classification *)

\* r[name] of a JavaScript object: undefined when the property is missing
Field(r, name) == IF name \in DOMAIN r THEN r[name] ELSE undefined

\* a || b on strings
OrElse(a, b) == IF Falsy(a) THEN b ELSE a

\* s.split(/\s+/).filter(Boolean)
RECURSIVE Tokens(_)
Tokens(s) ==
  IF s = <<>> THEN <<>>
  ELSE IF IsSpace(s[1]) THEN Tokens(Tail(s))
  ELSE <<SubSeq(s, 1, RunEnd(s, 1, LAMBDA c : ~IsSpace(c)))>>
       \o Tokens(SubSeq(s, RunEnd(s, 1, LAMBDA c : ~IsSpace(c)) + 1, Len(s)))

\* needles.some((t) => bag.includes(t))
SomeNeedle(bag, needles) == \E k \in 1..Len(needles) : includes(bag, needles[k])

\* needles.every((t) => bag.includes(t))
EveryNeedle(bag, needles) == \A k \in 1..Len(needles) : includes(bag, needles[k])

\* `${r.REMARKS || ""} ${r.REFERENCE || ""}`.toLowerCase()
Bag(r) ==
  toLowerCase(OrElse(Field(r, "REMARKS"), <<>>) \o <<" ">>
              \o OrElse(Field(r, "REFERENCE"), <<>>))

SearchNeedles(rows, needles) == SelectSeq(rows, LAMBDA r : EveryNeedle(Bag(r), needles))

applySearch(rows, q) ==
  IF trim(q) = <<>> THEN rows ELSE SearchNeedles(rows, Tokens(toLowerCase(q)))

\* String(n) of an integer
IntToStr(n) == IF n < 0 THEN <<"-">> \o NatToStr(-n) ELSE NatToStr(n)

\* iso.split("-").map(Number): the first two numbers of "YYYY-MM-DD"
YearOf(iso) == DigitsVal(SubSeq(iso, 1, 4))
MonthOf(iso) == DigitsVal(SubSeq(iso, 6, 7))

monthKey(iso) == SubSeq(iso, 1, 7)

\* `${y}-${pad(start)}..${y}-${pad(end)}`
TwoMonthLabel(y, start) ==
  IntToStr(y) \o <<"-">> \o padStart(IntToStr(start), 2) \o <<".", ".">>
  \o IntToStr(y) \o <<"-">> \o padStart(IntToStr(start + 1), 2)

\* the pairing that starts at the even month: [2-3], [4-5], ...
twoMonthKeyEvenStart(iso) ==
  TwoMonthLabel(YearOf(iso), IF MonthOf(iso) % 2 = 0 THEN MonthOf(iso) ELSE MonthOf(iso) - 1)

twoMonthKey(iso) ==
  TwoMonthLabel(YearOf(iso), IF MonthOf(iso) % 2 = 0 THEN MonthOf(iso) - 1 ELSE MonthOf(iso))

quarterKey(iso) == IntToStr(YearOf(iso)) \o <<" ", "Q">> \o IntToStr(((MonthOf(iso) - 1) \div 3) + 1)

\* the non-null normalized transaction dates of rows, in row order
TxnISOs(rows) ==
  SelectSeq([i \in 1..Len(rows) |-> toISO(Field(rows[i], "TXN_DATE"))],
            LAMBDA d : d # null)

\* isos sorted with localeCompare: its first and its last element
FirstSorted(isos) ==
  IF isos = <<>> THEN null
  ELSE isos[CHOOSE i \in 1..Len(isos) :
              \A j \in 1..Len(isos) : localeCompare(isos[i], isos[j]) <= 0]

LastSorted(isos) ==
  IF isos = <<>> THEN null
  ELSE isos[CHOOSE i \in 1..Len(isos) :
              \A j \in 1..Len(isos) : localeCompare(isos[i], isos[j]) >= 0]

startOfDataISO(rows) == FirstSorted(TxnISOs(rows))

endOfDataISO(rows) == LastSorted(TxnISOs(rows))

\* x put after the last element of sorted that does not come after it
InsertSorted(sorted, x, le) ==
  IF le = {} THEN <<x>> \o sorted
  ELSE SubSeq(sorted, 1, CHOOSE j \in le : \A k \in le : j >= k) \o <<x>>
       \o SubSeq(sorted, (CHOOSE j \in le : \A k \in le : j >= k) + 1, Len(sorted))

\* Array.prototype.sort with comparator Cmp: stable
StableSort(seq, Cmp(_, _)) ==
  LET F[n \in 0..Len(seq)] ==
        IF n = 0 THEN <<>>
        ELSE InsertSorted(F[n - 1], seq[n],
                          {j \in 1..Len(F[n - 1]) : Cmp(F[n - 1][j], seq[n]) <= 0})
  IN F[Len(seq)]

\* { ...r, _debit, _credit, _iso }
WithNums(r) ==
  [f \in DOMAIN r \cup {"_debit", "_credit", "_iso"} |->
     IF f = "_debit" THEN parseMoney(Field(r, "DEBIT"))
     ELSE IF f = "_credit" THEN parseMoney(Field(r, "CREDIT"))
     ELSE IF f = "_iso" THEN toISO(Field(r, "TXN_DATE"))
     ELSE r[f]]

\* the sort with largestCredit and largestDebit in ascending order
SortWithNumsAscending(withNums, sortBy) ==
  CASE sortBy = "largestCredit" ->
         StableSort(withNums, LAMBDA a, b : Sign(FSub(a._credit, b._credit)))
    [] sortBy = "largestDebit" ->
         StableSort(withNums, LAMBDA a, b : Sign(FSub(a._debit, b._debit)))
    [] sortBy = "txnDateAsc" ->
         StableSort(withNums,
                    LAMBDA a, b : localeCompare(OrElse(a._iso, <<>>), OrElse(b._iso, <<>>)))
    [] sortBy = "txnDateDesc" ->
         StableSort(withNums,
                    LAMBDA a, b : localeCompare(OrElse(b._iso, <<>>), OrElse(a._iso, <<>>)))

SortWithNums(withNums, sortBy) ==
  CASE sortBy = "largestCredit" ->
         StableSort(withNums, LAMBDA a, b : Sign(FSub(b._credit, a._credit)))
    [] sortBy = "largestDebit" ->
         StableSort(withNums, LAMBDA a, b : Sign(FSub(b._debit, a._debit)))
    [] sortBy = "txnDateAsc" ->
         StableSort(withNums,
                    LAMBDA a, b : localeCompare(OrElse(a._iso, <<>>), OrElse(b._iso, <<>>)))
    [] sortBy = "txnDateDesc" ->
         StableSort(withNums,
                    LAMBDA a, b : localeCompare(OrElse(b._iso, <<>>), OrElse(a._iso, <<>>)))

sortRows(rows, sortBy) ==
  IF sortBy \in {"largestCredit", "largestDebit", "txnDateAsc", "txnDateDesc"}
  THEN SortWithNums([i \in 1..Len(rows) |-> WithNums(rows[i])], sortBy)
  ELSE rows

\* the classification with the airtime rule tried before the pos rule
ClassifyAirtimeFirst(r) ==
  IF includes(r, <<"e", "l", "e", "c", "t", "r", "o", "n", "i", "c", " ", "m", "o", "n", "e", "y", " ", "t", "r", "a", "n", "s", "f", "e", "r", " ", "l", "e", "v", "y">>) THEN "levy"
  ELSE IF includes(r, <<"a", "i", "r", "t", "i", "m", "e">>) THEN "airtime"
  ELSE IF startsWith(r, <<"p", "o", "s", " ">>) \/ includes(r, <<"c", "a", "r", "d", " ", "p", "a", "y", "m", "e", "n", "t", "-", "p", "o", "s">>) THEN "pos"
  ELSE IF includes(r, <<"m", "o", "b", "i", "l", "e", " ", "d", "a", "t", "a">>) \/ includes(r, <<" ", "d", "a", "t", "a">>) THEN "data"
  ELSE IF startsWith(r, <<"t", "r", "a", "n", "s", "f", "e", "r", " ", "f", "r", "o", "m">>) \/ includes(r, <<"r", "e", "c", "e", "i", "v", "e", "d", " ", "f", "r", "o", "m">>)
    THEN "transferIn"
  ELSE IF startsWith(r, <<"t", "r", "a", "n", "s", "f", "e", "r", " ", "t", "o">>) \/ startsWith(r, <<"s", "e", "n", "d", " ", "t", "o">>)
    THEN "transferOut"
  ELSE "other"

ClassifyLower(r) ==
  IF includes(r, <<"e", "l", "e", "c", "t", "r", "o", "n", "i", "c", " ", "m", "o", "n", "e", "y", " ", "t", "r", "a", "n", "s", "f", "e", "r", " ", "l", "e", "v", "y">>) THEN "levy"
  ELSE IF startsWith(r, <<"p", "o", "s", " ">>) \/ includes(r, <<"c", "a", "r", "d", " ", "p", "a", "y", "m", "e", "n", "t", "-", "p", "o", "s">>) THEN "pos"
  ELSE IF includes(r, <<"a", "i", "r", "t", "i", "m", "e">>) THEN "airtime"
  ELSE IF includes(r, <<"m", "o", "b", "i", "l", "e", " ", "d", "a", "t", "a">>) \/ includes(r, <<" ", "d", "a", "t", "a">>) THEN "data"
  ELSE IF startsWith(r, <<"t", "r", "a", "n", "s", "f", "e", "r", " ", "f", "r", "o", "m">>) \/ includes(r, <<"r", "e", "c", "e", "i", "v", "e", "d", " ", "f", "r", "o", "m">>)
    THEN "transferIn"
  ELSE IF startsWith(r, <<"t", "r", "a", "n", "s", "f", "e", "r", " ", "t", "o">>) \/ startsWith(r, <<"s", "e", "n", "d", " ", "t", "o">>)
    THEN "transferOut"
  ELSE "other"

classifyType(remarks) == ClassifyLower(toLowerCase(OrElse(remarks, <<>>)))

---------------------------------------------------------------------------
(* The store: initial state and the stages of recompute *)

Types == {"transferIn", "transferOut", "pos", "levy", "airtime", "data", "other"}

ZeroTotals ==
  [debit |-> Fin(0), credit |-> Fin(0), net |-> Fin(0), rows |-> 0, passRatio |-> Fin(0)]

ZeroTypeSummary == [t \in Types |-> [debit |-> Fin(0), credit |-> Fin(0), rows |-> 0]]

ZeroRollingCredit ==
  [total30 |-> Fin(0), total90 |-> Fin(0), total180 |-> Fin(0),
   avg30 |-> Fin(0), avg90 |-> Fin(0), avg180 |-> Fin(0), combinedAvg |-> Fin(0)]

InitialFilters ==
  [preset |-> "all", search |-> <<>>, sortBy |-> "none", bucket |-> "monthly"]

\* { ...s.filters, ...patch }
Merge(f, patch) ==
  [k \in DOMAIN f \cup DOMAIN patch |-> IF k \in DOMAIN patch THEN patch[k] ELSE f[k]]

\* to = maxISO || undefined; from = to ? dateAdd(n) : undefined
LastDays(maxISO, n) ==
  [from |-> IF ~Falsy(maxISO) THEN dateAddDays(maxISO, n) ELSE undefined,
   to |-> OrElse(maxISO, undefined)]

RangeOf(f, maxISO, minISO) ==
  CASE f.preset = "last30" -> LastDays(maxISO, -29)
    [] f.preset = "last60" -> LastDays(maxISO, -59)
    [] f.preset = "last90" -> LastDays(maxISO, -89)
    [] f.preset = "last180" -> LastDays(maxISO, -179)
    [] f.preset = "all" ->
         [from |-> OrElse(minISO, undefined), to |-> OrElse(maxISO, undefined)]
    [] f.preset = "custom" ->
         [from |-> Field(f, "customFrom"), to |-> Field(f, "customTo")]
    [] OTHER -> [from |-> undefined, to |-> undefined]

\* from / to of the active preset; either may be undefined, and from is
\* RangeError when dateAddDays throws
ResolveRange(rawv, f) == RangeOf(f, endOfDataISO(rawv), startOfDataISO(rawv))

\* the filter callback without its test of the upper bound
KeepISONoUpperBound(iso, from, to) ==
  IF Falsy(from) /\ Falsy(to) THEN TRUE
  ELSE IF Falsy(iso) THEN FALSE
  ELSE IF ~Falsy(from) /\ StrLess(iso, from) THEN FALSE
  ELSE TRUE

\* the filter callback of the date stage, for a row whose date normalizes to iso
KeepISO(iso, from, to) ==
  IF Falsy(from) /\ Falsy(to) THEN TRUE
  ELSE IF Falsy(iso) THEN FALSE
  ELSE IF ~Falsy(from) /\ StrLess(iso, from) THEN FALSE
  ELSE IF ~Falsy(to) /\ StrLess(to, iso) THEN FALSE
  ELSE TRUE

\* raw.some((r) => !!toISO(r.TXN_DATE))
AnyISO(rawv) == \E i \in 1..Len(rawv) : ~Falsy(toISO(Field(rawv[i], "TXN_DATE")))

\* the date stage without the fail-open test on anyISO: every row goes through
\* the filter callback
DateStageAlwaysFilters(rawv, from, to) ==
  SelectSeq(rawv, LAMBDA r : KeepISO(toISO(Field(r, "TXN_DATE")), from, to))

\* the date stage: base
DateStage(rawv, from, to) ==
  IF ~AnyISO(rawv) THEN rawv
  ELSE SelectSeq(rawv, LAMBDA r : KeepISO(toISO(Field(r, "TXN_DATE")), from, to))

\* the left-to-right sum of Amount over rows
SumOver(rows, Amount(_)) ==
  LET S[n \in 0..Len(rows)] == IF n = 0 THEN Fin(0) ELSE FAdd(S[n - 1], Amount(rows[n]))
  IN S[Len(rows)]

Debit(r) == parseMoney(Field(r, "DEBIT"))
Credit(r) == parseMoney(Field(r, "CREDIT"))

\* r.Check === "true", with no lower-casing
PassesCaseSensitive(r) == Field(r, "Check") = <<"t", "r", "u", "e">>

\* (r.Check || "").toLowerCase() === "true"
Passes(r) == toLowerCase(OrElse(Field(r, "Check"), <<>>)) = <<"t", "r", "u", "e">>

\* totals whose net is debit - credit
TotalsOfDebitMinusCredit(debit, credit, pass, n) ==
  [debit |-> debit,
   credit |-> credit,
   net |-> FSub(debit, credit),
   rows |-> n,
   passRatio |-> IF n # 0 THEN Fin((pass * Unit) \div n) ELSE Fin(0)]

TotalsOf(debit, credit, pass, n) ==
  [debit |-> debit,
   credit |-> credit,
   net |-> FSub(credit, debit),
   rows |-> n,
   passRatio |-> IF n # 0 THEN Fin((pass * Unit) \div n) ELSE Fin(0)]

\* Totals & pass %
Totals(sorted) ==
  TotalsOf(SumOver(sorted, Debit), SumOver(sorted, Credit),
           Cardinality({i \in 1..Len(sorted) : Passes(sorted[i])}), Len(sorted))

\* iso ? keyer(iso) : "All"
KeyOf(iso, mode) ==
  IF Falsy(iso) THEN <<"A", "l", "l">>
  ELSE CASE mode = "monthly" -> monthKey(iso)
         [] mode = "biMonthly" -> twoMonthKey(iso)
         [] mode = "quarterly" -> quarterKey(iso)
         [] OTHER -> <<"A", "l", "l">>

\* the bucket label of a row, by its transaction date
BucketKeyByTxnDate(r, mode) == KeyOf(toISO(Field(r, "TXN_DATE")), mode)

\* the bucket label of a row
BucketKey(r, mode) == KeyOf(toISO(Field(r, "VAL_DATE")), mode)

\* the map entry v with one more row, counted as a debit and as a credit
\* whatever its amounts
AddAmountsCountingAll(v, d, c) ==
  [label |-> v.label,
   debit |-> FAdd(v.debit, d),
   credit |-> FAdd(v.credit, c),
   rows |-> v.rows + 1,
   debitCount |-> v.debitCount + 1,
   creditCount |-> v.creditCount + 1]

\* the map entry v with debit d and credit c of one more row
AddAmounts(v, d, c) ==
  [label |-> v.label,
   debit |-> FAdd(v.debit, d),
   credit |-> FAdd(v.credit, c),
   rows |-> v.rows + 1,
   debitCount |-> IF d # Fin(0) THEN v.debitCount + 1 ELSE v.debitCount,
   creditCount |-> IF c # Fin(0) THEN v.creditCount + 1 ELSE v.creditCount]

\* map.get(k) || { debit: 0, credit: 0, rows: 0, debitCount: 0, creditCount: 0 }
EntryOf(map, k) ==
  IF \E j \in 1..Len(map) : map[j].label = k
  THEN map[CHOOSE j \in 1..Len(map) : map[j].label = k]
  ELSE [label |-> k, debit |-> Fin(0), credit |-> Fin(0), rows |-> 0,
        debitCount |-> 0, creditCount |-> 0]

\* map.set(k, v): in place for a key of the map, else at its end
MapSet(map, v) ==
  IF \E j \in 1..Len(map) : map[j].label = v.label
  THEN [j \in 1..Len(map) |-> IF map[j].label = v.label THEN v ELSE map[j]]
  ELSE Append(map, v)

PutRow(map, r, k) == MapSet(map, AddAmounts(EntryOf(map, k), Debit(r), Credit(r)))

\* the map after the loop over sorted
BucketMap(sorted, mode) ==
  LET M[n \in 0..Len(sorted)] ==
        IF n = 0 THEN <<>> ELSE PutRow(M[n - 1], sorted[n], BucketKey(sorted[n], mode))
  IN M[Len(sorted)]

\* the bucket list in the insertion order of the map, not sorted
BucketListUnsorted(map) ==
  [j \in 1..Len(map) |->
     [label |-> map[j].label, debit |-> map[j].debit, credit |-> map[j].credit,
      net |-> FSub(map[j].credit, map[j].debit), rows |-> map[j].rows,
      debitCount |-> map[j].debitCount, creditCount |-> map[j].creditCount]]

BucketList(map) ==
  StableSort([j \in 1..Len(map) |->
                [label |-> map[j].label, debit |-> map[j].debit, credit |-> map[j].credit,
                 net |-> FSub(map[j].credit, map[j].debit), rows |-> map[j].rows,
                 debitCount |-> map[j].debitCount, creditCount |-> map[j].creditCount]],
             LAMBDA a, b : localeCompare(a.label, b.label))

\* Buckets: a map filled in row order, then sorted by label
Buckets(sorted, mode) == BucketList(BucketMap(sorted, mode))

\* the summary of a type that leaves the debits out
TypeEntryWithoutDebits(rows) ==
  [debit |-> Fin(0), credit |-> SumOver(rows, Credit), rows |-> Len(rows)]

TypeEntry(rows) ==
  [debit |-> SumOver(rows, Debit), credit |-> SumOver(rows, Credit), rows |-> Len(rows)]

\* Type summary (uses classifyType)
TypeSummary(sorted) ==
  [t \in Types |->
     TypeEntry(SelectSeq(sorted,
                         LAMBDA r : classifyType(OrElse(Field(r, "REMARKS"), <<>>)) = t))]

\* iso >= from && iso <= to for a value date that normalizes
InWindow(iso, from, to) == ~Falsy(iso) /\ ~StrLess(iso, from) /\ ~StrLess(to, iso)

CreditBetween(rawv, from, to) ==
  SumOver(SelectSeq(rawv, LAMBDA r : InWindow(toISO(Field(r, "VAL_DATE")), from, to)), Credit)

CreditInWindowOf(rawv, days, maxISO) ==
  IF Falsy(maxISO) THEN Fin(0)
  ELSE CreditBetween(rawv, dateAddDays(maxISO, -(days - 1)), maxISO)

\* creditInWindow: the credit of the raw rows whose value date lies in the
\* trailing window of the given days that ends at the latest transaction date
creditInWindow(rawv, days) == CreditInWindowOf(rawv, days, endOfDataISO(rawv))

\* Mean of the three monthly averages
CombinedAvg(avg30, avg90, avg180, nonEmpty) ==
  IF Len(nonEmpty) # 0
  THEN FDiv(FAdd(FAdd(avg30, avg90), avg180), Len(nonEmpty))
  ELSE Fin(0)

RollingOfAverages(total30, total90, total180, avg30, avg90, avg180) ==
  [total30 |-> total30, total90 |-> total90, total180 |-> total180,
   avg30 |-> avg30, avg90 |-> avg90, avg180 |-> avg180,
   combinedAvg |-> CombinedAvg(avg30, avg90, avg180,
                               SelectSeq(<<avg30, avg90, avg180>>, isFinite))]

\* Convert window totals to "per 30-day average"
RollingOfTotals(total30, total90, total180) ==
  RollingOfAverages(total30, total90, total180,
                    FDiv(total30, 1), FDiv(total90, 3), FDiv(total180, 6))

\* Rolling credit means (last 30/90/180 days)
RollingCredit(rawv) ==
  RollingOfTotals(creditInWindow(rawv, 30), creditInWindow(rawv, 90),
                  creditInWindow(rawv, 180))

FilteredIn(rawv, f, range) ==
  sortRows(applySearch(DateStage(rawv, range.from, range.to), f.search), f.sortBy)

\* filtered: date stage, then search, then sort
Filtered(rawv, f) == FilteredIn(rawv, f, ResolveRange(rawv, f))

ThrowsAt(maxISO) == ~Falsy(maxISO) /\ dateAddDays(maxISO, -29) = RangeError

\* recompute throws (toISOString of an Invalid Date in dateAddDays) exactly
\* when the latest transaction date is no calendar date
RecomputeThrows(rawv) == ThrowsAt(endOfDataISO(rawv))

---------------------------------------------------------------------------
(* The parser's output: JSON.parse and parseOutput *)

\* a thrown SyntaxError of JSON.parse
SyntaxError == <<"SyntaxError">>

\* the errors parseOutput throws itself
NoStartError == <<"Error: No JSON start token found in output">>
NoEndError == <<"Error: Could not find end of JSON payload">>

JSONSpace(c) == c \in {" ", "\t", "\n", "\r"}

\* the first position from i on that holds no JSON whitespace
RECURSIVE SkipSpace(_, _)
SkipSpace(s, i) == IF i <= Len(s) /\ JSONSpace(s[i]) THEN SkipSpace(s, i + 1) ELSE i

\* the first position from i on that holds no digit
RECURSIVE DigitsEnd(_, _)
DigitsEnd(s, i) == IF i <= Len(s) /\ IsDigit(s[i]) THEN DigitsEnd(s, i + 1) ELSE i

CharAt(s, i) == IF i \in 1..Len(s) THEN s[i] ELSE ""

\* the position after a JSON string whose opening quote precedes i, 0 when
\* the text from i on does not complete a string
RECURSIVE StringEnd(_, _)
StringEnd(s, i) ==
  IF i > Len(s) \/ s[i] \in {"\n", "\t", "\r"} THEN 0
  ELSE IF s[i] = "\"" THEN i + 1
  ELSE IF s[i] = "\\"
    THEN (IF CharAt(s, i + 1) \in {"\"", "\\", "/", "b", "f", "n", "r", "t"}
          THEN StringEnd(s, i + 2) ELSE 0)
  ELSE StringEnd(s, i + 1)

\* the exponent of a number, if any, from position c on
ExponentEnd(s, c, d) ==
  IF CharAt(s, c) \notin {"e", "E"} THEN c
  ELSE IF DigitsEnd(s, d) = d THEN 0 ELSE DigitsEnd(s, d)

\* the fraction of a number, if any, from position b on, then its exponent
FractionEnd(s, b) ==
  IF CharAt(s, b) # "." THEN b
  ELSE IF DigitsEnd(s, b + 1) = b + 1 THEN 0 ELSE DigitsEnd(s, b + 1)

NumberTail(s, c) ==
  IF c = 0 THEN 0
  ELSE ExponentEnd(s, c, IF CharAt(s, c + 1) \in {"+", "-"} THEN c + 2 ELSE c + 1)

\* the integer part at a: "0", or digits with no leading zero
IntegerEnd(s, a) ==
  IF ~IsDigit(CharAt(s, a)) THEN 0
  ELSE IF s[a] = "0" THEN a + 1 ELSE DigitsEnd(s, a)

NumberFrom(s, b) == IF b = 0 THEN 0 ELSE NumberTail(s, FractionEnd(s, b))

\* the position after a JSON number at i, 0 when there is none
NumberEnd(s, i) == NumberFrom(s, IntegerEnd(s, IF CharAt(s, i) = "-" THEN i + 1 ELSE i))

WordEnd(s, i, w) == IF SubSeq(s, i, i + Len(w) - 1) = w THEN i + Len(w) ELSE 0

\* the position after true, false, null or a number at i, 0 when there is none
ScalarEnd(s, i) ==
  IF i + 3 <= Len(s) /\ WordEnd(s, i, <<"t", "r", "u", "e">>) # 0 THEN i + 4
  ELSE IF i + 4 <= Len(s) /\ WordEnd(s, i, <<"f", "a", "l", "s", "e">>) # 0 THEN i + 5
  ELSE IF i + 3 <= Len(s) /\ WordEnd(s, i, <<"n", "u", "l", "l">>) # 0 THEN i + 4
  ELSE NumberEnd(s, i)

RECURSIVE ValueEnd(_, _)
RECURSIVE ElementsEnd(_, _)
RECURSIVE MembersEnd(_, _)

\* after an element and white space: "," and more elements, or "]"
AfterElement(s, j) ==
  IF CharAt(s, j) = "," THEN ElementsEnd(s, SkipSpace(s, j + 1))
  ELSE IF CharAt(s, j) = "]" THEN j + 1 ELSE 0

\* after a member and white space: "," and more members, or "}"
AfterMember(s, j) ==
  IF CharAt(s, j) = "," THEN MembersEnd(s, SkipSpace(s, j + 1))
  ELSE IF CharAt(s, j) = "}" THEN j + 1 ELSE 0

\* after a member's name and white space: ":" and the member's value
AfterName(s, c) ==
  IF CharAt(s, c) # ":" THEN 0 ELSE ValueEnd(s, SkipSpace(s, c + 1))

NameThenValue(s, k) == IF k = 0 THEN 0 ELSE AfterName(s, SkipSpace(s, k))

ThenMore(s, v) == IF v = 0 THEN 0 ELSE AfterMember(s, SkipSpace(s, v))

ThenElements(s, e) == IF e = 0 THEN 0 ELSE AfterElement(s, SkipSpace(s, e))

\* the position after the elements of an array and its "]", 0 when malformed
ElementsEnd(s, i) == ThenElements(s, ValueEnd(s, i))

\* the position after the members of an object and its "}", 0 when malformed
MembersEnd(s, i) ==
  IF CharAt(s, i) # "\"" THEN 0 ELSE ThenMore(s, NameThenValue(s, StringEnd(s, i + 1)))

\* the position after the JSON value that starts at i, 0 when there is none
ValueEnd(s, i) ==
  IF CharAt(s, i) = "{"
    THEN (IF CharAt(s, SkipSpace(s, i + 1)) = "}" THEN SkipSpace(s, i + 1) + 1
          ELSE MembersEnd(s, SkipSpace(s, i + 1)))
  ELSE IF CharAt(s, i) = "["
    THEN (IF CharAt(s, SkipSpace(s, i + 1)) = "]" THEN SkipSpace(s, i + 1) + 1
          ELSE ElementsEnd(s, SkipSpace(s, i + 1)))
  ELSE IF CharAt(s, i) = "\"" THEN StringEnd(s, i + 1)
  ELSE ScalarEnd(s, i)

\* a parsed value, written as its JSON text without the white space between
\* its tokens
RECURSIVE Compact(_, _, _)
Compact(s, i, inString) ==
  IF i > Len(s) THEN <<>>
  ELSE IF inString /\ s[i] = "\\" THEN <<s[i], s[i + 1]>> \o Compact(s, i + 2, TRUE)
  ELSE IF inString THEN <<s[i]>> \o Compact(s, i + 1, s[i] # "\"")
  ELSE IF JSONSpace(s[i]) THEN Compact(s, i + 1, FALSE)
  ELSE <<s[i]>> \o Compact(s, i + 1, s[i] = "\"")

ParsedTo(text, i, e) ==
  IF e # 0 /\ SkipSpace(text, e) = Len(text) + 1
  THEN Compact(SubSeq(text, i, e - 1), 1, FALSE)
  ELSE SyntaxError

ParsedFrom(text, i) == ParsedTo(text, i, ValueEnd(text, i))

\* JSON.parse(text): the value of the one JSON text between optional white
\* space, or a SyntaxError
JSONparse(text) == ParsedFrom(text, SkipSpace(text, 1))

\* output.indexOf(c), counted from 1; 0 when c does not occur
indexOf(s, c) == FirstIndexOf(s, {c}) % (Len(s) + 1)

\* const start = objStart !== -1 && (arrStart === -1 || objStart < arrStart) ? ...
StartOf(objStart, arrStart) ==
  IF objStart # 0 /\ (arrStart = 0 \/ objStart < arrStart) THEN objStart ELSE arrStart

DepthAfter(depth, ch) ==
  IF ch \in {"{", "["} THEN depth + 1 ELSE IF ch \in {"}", "]"} THEN depth - 1 ELSE depth

\* the loop that tracks braces and brackets from position i on with the depth
\* reached so far: the position after the closer at depth 0, 0 when none
RECURSIVE ScanEnd(_, _, _)
ScanEnd(s, i, depth) ==
  IF i > Len(s) THEN 0
  ELSE IF DepthAfter(depth, s[i]) = 0 /\ s[i] \in {"}", "]"} THEN i + 1
  ELSE ScanEnd(s, i + 1, DepthAfter(depth, s[i]))

OrThrow(v, err) == IF v # SyntaxError THEN v ELSE err

\* Last resort: try plain JSON.parse on whole string, else throw err
LastResort(output, err) == OrThrow(JSONparse(output), err)

OrLastResort(output, v) == IF v = SyntaxError THEN LastResort(output, SyntaxError) ELSE v

ParseSlice(output, start, end) ==
  IF end = 0 THEN LastResort(output, NoEndError)
  ELSE OrLastResort(output, JSONparse(SubSeq(output, start, end - 1)))

ParseFrom(output, start) == ParseSlice(output, start, ScanEnd(output, start, 0))

ParseBetween(output, objStart, arrStart) ==
  IF objStart = 0 /\ arrStart = 0 THEN LastResort(output, NoStartError)
  ELSE ParseFrom(output, StartOf(objStart, arrStart))

\* parseOutput(output): the parsed payload, or the error it throws
parseOutput(output) == ParseBetween(output, indexOf(output, "{"), indexOf(output, "["))

---------------------------------------------------------------------------
(* Inputs *)

\* the time zones of the environment, in minutes east of UTC
\* (New York in winter, UTC, Lagos)
UtcOffsets == {-300, 0, 60}

Row(txn, val, ref, remarks, debit, credit, check) ==
  [TXN_DATE |-> txn, VAL_DATE |-> val, REFERENCE |-> ref, REMARKS |-> remarks,
   DEBIT |-> debit, CREDIT |-> credit, BALANCE |-> <<>>, Check |-> check]

\* all lists of at most n elements of S
ListsOf(S, n) == UNION {[1..k -> S] : k \in 0..n}

\* the example of the rolling aggregator: a credit of 300 with value date
\* 2025-06-15 in a dataset whose latest transaction date is 2025-06-30
RowTransferIn ==
  Row(<<"2", "0", "2", "5", "-", "0", "6", "-", "3", "0">>, <<"2", "0", "2", "5", "-", "0", "6", "-", "1", "5">>, <<"R", "E", "F", "1">>, <<"T", "r", "a", "n", "s", "f", "e", "r", " ", "f", "r", "o", "m", " ", "A", "d", "a">>, <<>>, <<"3", "0", "0">>, <<"t", "r", "u", "e">>)

\* two rows with no readable transaction date
RowPosUndated ==
  Row(<<"n", "/", "a">>, <<"n", "/", "a">>, <<"R", "E", "F", "2">>, <<"P", "O", "S", " ", "S", "h", "o", "p">>, <<"₦", "1", ",", "2", "3", "4", ".", "5", "0">>, <<>>, <<"T", "R", "U", "E">>)

RowAirtimeUndated ==
  Row(<<>>, <<"1", "5", " ", "M", "a", "r", " ", "2", "0", "2", "5">>, <<"R", "E", "F", "3">>, <<"A", "i", "r", "t", "i", "m", "e", " ", "t", "o", "p", "u", "p">>, <<"5", "0">>, <<"0", ".", "0", "0">>, <<"f", "a", "l", "s", "e">>)

\* a month-first date: 31 is read as the month
RowMonthFirst ==
  Row(<<"1", "2", "/", "3", "1", "/", "2", "0", "2", "4">>, <<"1", "2", "/", "3", "1", "/", "2", "0", "2", "4">>, <<"R", "E", "F", "4">>, <<"s", "e", "n", "d", " ", "t", "o", " ", "B", "o">>, <<"2", "0">>, <<>>, <<"t", "r", "u", "e">>)

\* dated 30 days before 2025-06-30, one day before the 30-day window
RowDayBefore30 ==
  Row(<<"3", "1", "/", "0", "5", "/", "2", "0", "2", "5">>, <<"3", "1", " ", "M", "a", "y", " ", "2", "0", "2", "5">>, <<"R", "E", "F", "5">>, <<"r", "e", "c", "e", "i", "v", "e", "d", " ", "f", "r", "o", "m", " ", "C", "h", "i">>, <<>>, <<"4", "0">>, <<"t", "r", "u", "e">>)

\* credits of more than half the largest finite value (two of them sum to
\* Infinity), inside the 30-day and the 90-day window
RowHuge30 ==
  Row(<<"2", "0", "2", "5", "-", "0", "6", "-", "3", "0">>, <<"2", "0", "2", "5", "-", "0", "6", "-", "2", "0">>, <<"R", "E", "F", "6">>, <<"T", "r", "a", "n", "s", "f", "e", "r", " ", "f", "r", "o", "m", " ", "D", "a", "n">>, <<>>, <<"3", "0", "0", "0">>, <<"t", "r", "u", "e">>)

RowHuge90 ==
  Row(<<"2", "0", "2", "5", "-", "0", "4", "-", "1", "5">>, <<"2", "0", "2", "5", "-", "0", "4", "-", "1", "5">>, <<"R", "E", "F", "7">>, <<"T", "r", "a", "n", "s", "f", "e", "r", " ", "f", "r", "o", "m", " ", "E", "z", "e">>, <<>>, <<"3", "0", "0", "0">>, <<"t", "r", "u", "e">>)

Rows == {RowTransferIn, RowPosUndated, RowMonthFirst}

Patches ==
  {[preset |-> p] : p \in {"all", "last30"}}
  \cup {[search |-> q] : q \in {<<"p", "o", "s">>, <<>>}}
  \cup {[bucket |-> b] : b \in {"none", "monthly"}}

UndatedRows == {RowPosUndated, RowAirtimeUndated}

UndatedPatches ==
  {[preset |-> p] : p \in {"last30", "last60", "last90", "last180", "all", "custom"}}
  \cup {[customFrom |-> d] : d \in {<<"2", "0", "2", "5", "-", "0", "6", "-", "0", "1">>, <<>>}}
  \cup {[customTo |-> d] : d \in {<<"2", "0", "2", "5", "-", "0", "6", "-", "3", "0">>}}
  \cup {[search |-> q] : q \in {<<"p", "o", "s">>, <<>>}}

RollingRows == {RowTransferIn, RowDayBefore30, RowHuge30, RowHuge90}

RollingPatches ==
  {[preset |-> p] : p \in {"last30", "last60", "last90", "last180", "all"}}

\* a row with no REFERENCE field, whose remarks match the pos and the airtime
\* rule, with the debit of RowMonthFirst and the credit of RowTransferIn
RowPosAirtime ==
  [TXN_DATE |-> <<"1", "0", " ", "M", "a", "r", " ", "2", "0", "2", "5">>, VAL_DATE |-> <<"2", "0", "2", "5", "-", "0", "3", "-", "1", "0">>,
   REMARKS |-> <<"P", "O", "S", " ", "p", "u", "r", "c", "h", "a", "s", "e", " ", "a", "i", "r", "t", "i", "m", "e", " ", "v", "e", "n", "d", "o", "r">>, DEBIT |-> <<"2", "0">>, CREDIT |-> <<"3", "0", "0">>,
   BALANCE |-> <<>>, Check |-> <<"t", "r", "u", "e">>]

\* the rows handed to applySearch and sortRows
HelperRows == {RowTransferIn, RowPosUndated, RowMonthFirst, RowPosAirtime}

\* search queries: empty, blank, one token, two tokens in upper and lower case
\* that one row has in REMARKS and REFERENCE, two tokens no row has both of,
\* and a token that starts in REMARKS and ends in REFERENCE
Queries ==
  {<<>>, <<" ", " ">>, <<"p", "o", "s">>, <<"P", "O", "S", " ", " ", "r", "e", "f", "2">>, <<"p", "o", "s", " ", "a", "d", "a">>, <<"s", "h", "o", "p", "r", "e", "f">>}

\* value date in the year before the transaction date; a credit of zero
RowSettledInDecember ==
  Row(<<"0", "2", "/", "0", "1", "/", "2", "0", "2", "5">>, <<"3", "1", " ", "D", "e", "c", " ", "2", "0", "2", "4">>, <<"R", "E", "F", "8">>, <<"T", "r", "a", "n", "s", "f", "e", "r", " ", "t", "o", " ", "I", "f", "e">>, <<"2", "0">>, <<"0", ".", "0", "0">>, <<"t", "r", "u", "e">>)

\* a transaction date that normalizes, a value date that does not
RowNoValueDate ==
  Row(<<"2", "0", "2", "5", "-", "0", "6", "-", "3", "0">>, <<"n", "/", "a">>, <<"R", "E", "F", "9">>, <<"P", "O", "S", " ", "S", "h", "o", "p">>, <<"₦", "1", ",", "2", "3", "4", ".", "5", "0">>, <<>>, <<"T", "R", "U", "E">>)

\* a month-first value date: 31 is read as its month
RowMonthFirstValue ==
  Row(<<"2", "0", "2", "5", "-", "0", "5", "-", "2", "0">>, <<"1", "2", "/", "3", "1", "/", "2", "0", "2", "4">>, <<"R", "E", "F", "1", "0">>, <<"A", "i", "r", "t", "i", "m", "e", " ", "t", "o", "p", "u", "p">>, <<"5", "0">>, <<>>, <<"f", "a", "l", "s", "e">>)

BucketRows == {RowTransferIn, RowSettledInDecember, RowNoValueDate, RowMonthFirstValue}

BucketPatches == {[bucket |-> b] : b \in {"none", "monthly", "biMonthly", "quarterly"}}

\* the months of a year, as the two digits of a normalized date
MonthTexts ==
  <<<<"0", "1">>, <<"0", "2">>, <<"0", "3">>, <<"0", "4">>, <<"0", "5">>, <<"0", "6">>, <<"0", "7">>, <<"0", "8">>, <<"0", "9">>, <<"1", "0">>, <<"1", "1">>, <<"1", "2">>>>

\* normalized value dates: two days of every month of two years
ValueDates ==
  {y \o <<"-">> \o MonthTexts[m] \o <<"-">> \o d :
     y \in {<<"2", "0", "2", "4">>, <<"2", "0", "2", "5">>}, m \in 1..12, d \in {<<"0", "5">>, <<"1", "0">>}}

\* the values of SortKey
SortKeys == {"none", "largestCredit", "largestDebit", "txnDateAsc", "txnDateDesc"}

---------------------------------------------------------------------------
(* Actions *)

\* result holds the arguments and the return value of a direct call of one of
\* the helper functions; NoCall before any such call
NoCall == [fn |-> "none"]

\* file: null, or a File with its MIME type
NoFile == [kind |-> "null"]

\* JSON values are written as their JSON text
EmptyList == <<"[", "]">>

NoRequest == [kind |-> "none"]
NoResponse == [kind |-> "none"]
IdleRoute == [pc |-> "idle"]

\* the parser store as created, no upload running, no request under way
InitUpload ==
  /\ file = NoFile
  /\ bank = <<>>
  /\ data = EmptyList
  /\ loading = FALSE
  /\ error = <<>>
  /\ password = <<>>
  /\ showPasswordInput = FALSE
  /\ meta = null
  /\ checks = EmptyList
  /\ rendered = [file |-> NoFile, bank |-> <<>>, password |-> <<>>,
                 showPasswordInput |-> FALSE]
  /\ upload = [pc |-> "none"]
  /\ request = NoRequest
  /\ route = IdleRoute
  /\ tempFile = "none"
  /\ response = NoResponse

\* the stores as created, in some time zone
Init ==
  /\ raw = <<>>
  /\ filtered = <<>>
  /\ totals = ZeroTotals
  /\ buckets = <<>>
  /\ typeSummary = ZeroTypeSummary
  /\ filters = InitialFilters
  /\ rollingCredit = ZeroRollingCredit
  /\ pc = "idle"
  /\ utcOffset \in UtcOffsets
  /\ result = NoCall
  /\ InitUpload

\* setRaw, up to its first set(): subscribers are notified of the new raw
SetRaw(rows) ==
  /\ UNCHANGED uploadVars
  /\ pc = "idle"
  /\ raw' = rows
  /\ pc' = "recompute"
  /\ UNCHANGED <<filtered, totals, buckets, typeSummary, filters, rollingCredit, utcOffset,
               result>>

\* setFilters, up to its first set(): subscribers are notified of the new filters
SetFilters(patch) ==
  /\ UNCHANGED uploadVars
  /\ pc = "idle"
  /\ filters' = Merge(filters, patch)
  /\ pc' = "recompute"
  /\ UNCHANGED <<raw, filtered, totals, buckets, typeSummary, rollingCredit, utcOffset,
               result>>

\* the final set() of recompute
SetDerived(sorted, mode, rolling) ==
  /\ filtered' = sorted
  /\ totals' = Totals(sorted)
  /\ buckets' = Buckets(sorted, mode)
  /\ typeSummary' = TypeSummary(sorted)
  /\ rollingCredit' = rolling

\* recompute, to its end: with no raw rows it resets the derived fields but
\* rollingCredit; when dateAddDays throws, the store keeps its state and the
\* exception leaves the handler; otherwise one final set() of all derived fields
Recompute ==
  /\ UNCHANGED uploadVars
  /\ pc = "recompute"
  /\ pc' = "idle"
  /\ UNCHANGED <<raw, filters, utcOffset, result>>
  /\ IF raw = <<>>
     THEN /\ filtered' = <<>>
          /\ totals' = ZeroTotals
          /\ buckets' = <<>>
          /\ typeSummary' = ZeroTypeSummary
          /\ UNCHANGED rollingCredit
     ELSE IF RecomputeThrows(raw)
     THEN UNCHANGED <<filtered, totals, buckets, typeSummary, rollingCredit>>
     ELSE SetDerived(Filtered(raw, filters), filters.bucket, RollingCredit(raw))

Next ==
  \/ \E rows \in ListsOf(Rows, MaxRows) : SetRaw(rows)
  \/ \E patch \in Patches : SetFilters(patch)
  \/ Recompute

Spec == Init /\ [][Next]_vars

\* datasets whose rows have no readable transaction date, under every preset
\* and custom range
NextUndated ==
  \/ \E rows \in ListsOf(UndatedRows, MaxRows) : SetRaw(rows)
  \/ \E patch \in UndatedPatches : SetFilters(patch)
  \/ Recompute

SpecUndated == Init /\ [][NextUndated]_vars

\* dated and undated rows under custom ranges, open or closed at either end
CustomRows == {RowTransferIn, RowDayBefore30, RowPosUndated}

CustomPatches ==
  {[preset |-> p] : p \in {"custom", "all"}}
  \cup {[customFrom |-> d] : d \in {<<"2", "0", "2", "5", "-", "0", "6", "-", "0", "1">>, <<>>}}
  \cup {[customTo |-> d] : d \in {<<"2", "0", "2", "5", "-", "0", "6", "-", "1", "5">>, <<>>}}

NextCustom ==
  \/ \E rows \in ListsOf(CustomRows, MaxRows) : SetRaw(rows)
  \/ \E patch \in CustomPatches : SetFilters(patch)
  \/ Recompute

SpecCustom == Init /\ [][NextCustom]_vars

\* datasets around the edges of the trailing windows
NextRolling ==
  \/ \E rows \in ListsOf(RollingRows, MaxRows) : SetRaw(rows)
  \/ \E patch \in RollingPatches : SetFilters(patch)
  \/ Recompute

SpecRolling == Init /\ [][NextRolling]_vars

\* datasets with value dates out of order, in other periods than their
\* transaction dates or not readable, under every bucket mode
NextBuckets ==
  \/ \E rows \in ListsOf(BucketRows, MaxRows) : SetRaw(rows)
  \/ \E patch \in BucketPatches : SetFilters(patch)
  \/ Recompute

SpecBuckets == Init /\ [][NextBuckets]_vars

\* a direct call applySearch(rows, q)
CallApplySearch(rows, q) ==
  /\ UNCHANGED uploadVars
  /\ result = NoCall
  /\ result' = [fn |-> "applySearch", rows |-> rows, q |-> q,
                value |-> applySearch(rows, q)]
  /\ UNCHANGED <<raw, filtered, totals, buckets, typeSummary, filters, rollingCredit,
                 pc, utcOffset>>

\* a direct call sortRows(rows, sortBy)
CallSortRows(rows, sortBy) ==
  /\ UNCHANGED uploadVars
  /\ result = NoCall
  /\ result' = [fn |-> "sortRows", rows |-> rows, sortBy |-> sortBy,
                value |-> sortRows(rows, sortBy)]
  /\ UNCHANGED <<raw, filtered, totals, buckets, typeSummary, filters, rollingCredit,
                 pc, utcOffset>>

\* the three period keys of a normalized date
PeriodKeys(iso) ==
  [monthly |-> monthKey(iso), biMonthly |-> twoMonthKey(iso),
   quarterly |-> quarterKey(iso)]

\* direct calls of monthKey, twoMonthKey and quarterKey on two normalized dates
CallPeriodKeys(a, b) ==
  /\ UNCHANGED uploadVars
  /\ result = NoCall
  /\ result' = [fn |-> "periodKeys", isos |-> <<a, b>>,
                value |-> <<PeriodKeys(a), PeriodKeys(b)>>]
  /\ UNCHANGED <<raw, filtered, totals, buckets, typeSummary, filters, rollingCredit,
                 pc, utcOffset>>

\* remarks of statements
RemarksTexts ==
  {undefined, <<>>,
   <<"P", "O", "S", " ", "p", "u", "r", "c", "h", "a", "s", "e", " ", "a", "i", "r", "t", "i", "m", "e", " ", "v", "e", "n", "d", "o", "r">>,
   <<"E", "l", "e", "c", "t", "r", "o", "n", "i", "c", " ", "M", "o", "n", "e", "y", " ", "T", "r", "a", "n", "s", "f", "e", "r", " ", "L", "e", "v", "y", " ", "o", "n", " ", "P", "O", "S", " ", "a", "i", "r", "t", "i", "m", "e">>,
   <<"C", "a", "r", "d", " ", "P", "a", "y", "m", "e", "n", "t", "-", "P", "O", "S", " ", "A", "i", "r", "t", "i", "m", "e">>,
   <<"A", "i", "r", "t", "i", "m", "e", " ", "a", "n", "d", " ", "m", "o", "b", "i", "l", "e", " ", "d", "a", "t", "a">>,
   <<"M", "o", "b", "i", "l", "e", " ", "D", "a", "t", "a", " ", "r", "e", "c", "e", "i", "v", "e", "d", " ", "f", "r", "o", "m", " ", "A", "d", "a">>,
   <<"M", "o", "n", "t", "h", "l", "y", " ", "d", "a", "t", "a", " ", "p", "l", "a", "n", ",", " ", "t", "r", "a", "n", "s", "f", "e", "r", " ", "t", "o", " ", "I", "f", "e">>,
   <<"T", "r", "a", "n", "s", "f", "e", "r", " ", "f", "r", "o", "m", " ", "A", "d", "a">>,
   <<"R", "e", "c", "e", "i", "v", "e", "d", " ", "f", "r", "o", "m", " ", "A", "d", "a", ",", " ", "s", "e", "n", "d", " ", "t", "o", " ", "I", "f", "e">>,
   <<"T", "r", "a", "n", "s", "f", "e", "r", " ", "t", "o", " ", "I", "f", "e">>,
   <<"S", "e", "n", "d", " ", "t", "o", " ", "I", "f", "e">>,
   <<"R", "e", "p", "o", "s", " ", "t", "r", "a", "n", "s", "f", "e", "r", " ", "t", "o", " ", "I", "f", "e">>,
   <<"C", "h", "e", "q", "u", "e", " ", "d", "e", "p", "o", "s", "i", "t">>}

\* classifyType(remarks) called directly
CallClassifyType(remarks) ==
  /\ UNCHANGED uploadVars
  /\ result = NoCall
  /\ result' = [fn |-> "classifyType", remarks |-> remarks, value |-> classifyType(remarks)]
  /\ UNCHANGED <<raw, filtered, totals, buckets, typeSummary, filters, rollingCredit,
                 pc, utcOffset>>

\* dates as statements write them
DateTexts ==
  {undefined, <<>>,
   <<"2", "0", "2", "5", "-", "0", "6", "-", "3", "0">>, <<"2", "0", "2", "5", "-", "1", "3", "-", "4", "5">>, <<" ", "2", "0", "2", "5", "-", "0", "2", "-", "3", "0", " ">>,
   <<"3", "1", "/", "1", "2", "/", "2", "0", "2", "4">>, <<"1", "2", "/", "3", "1", "/", "2", "0", "2", "4">>, <<"3", "1", "-", "0", "2", "-", "2", "0", "2", "5">>,
   <<"1", "0", " ", "M", "a", "r", " ", "2", "0", "2", "5">>, <<"3", "1", " ", "A", "p", "r", " ", "2", "0", "2", "5", " ", "1", "0", ":", "1", "5", ":", "0", "0">>, <<"5", " ", "S", "e", "p", "t", " ", "2", "0", "2", "5">>, <<"0", "1", " ", "J", "a", "n", "u", "a", "r", "y", " ", "2", "0", "2", "5">>,
   <<"2", "0", "2", "5", " ", "A", "p", "r", " ", "0", "5">>, <<"2", "0", "2", "5", " ", "F", "e", "b", " ", "3", "0">>,
   <<"3", "1", " ", "D", "e", "c", "e", "m", "b", "e", "r", " ", "2", "0", "2", "4">>, <<"n", "/", "a">>}

\* toISO(s) called directly
CallToISO(s) ==
  /\ UNCHANGED uploadVars
  /\ result = NoCall
  /\ result' = [fn |-> "toISO", s |-> s, value |-> toISO(s)]
  /\ UNCHANGED <<raw, filtered, totals, buckets, typeSummary, filters, rollingCredit,
                 pc, utcOffset>>

\* amounts as the parser's JSON carries them: text, or numbers
MoneyTexts ==
  {undefined, null, <<>>,
   <<"₦", "1", ",", "2", "3", "4", ".", "5", "0">>, <<" ", "1", " ", "0", "0", "0", " ">>, <<"-", "2", "0">>, <<".", "5">>, <<"1", "e", "3">>, <<"1", "e", "9", "9", "9">>, <<"I", "n", "f", "i", "n", "i", "t", "y">>,
   <<"1", "2", "a", "b", "c">>, <<"n", "/", "a">>, <<"₦">>, <<"0", "x", "1", "F">>, <<"1", ".", "2", ".", "3">>}

MoneyNumbers == {Fin(0), Fin(42 * Unit), Fin(-7 * Unit), NaN, PosInf, NegInf}

\* parseMoney(s) called directly with a string, null or undefined
CallParseMoney(s) ==
  /\ UNCHANGED uploadVars
  /\ result = NoCall
  /\ result' = [fn |-> "parseMoney", type |-> "string", s |-> s, value |-> parseMoney(s)]
  /\ UNCHANGED <<raw, filtered, totals, buckets, typeSummary, filters, rollingCredit,
                 pc, utcOffset>>

\* parseMoney(n) called directly with a number
CallParseMoneyOfNumber(n) ==
  /\ UNCHANGED uploadVars
  /\ result = NoCall
  /\ result' = [fn |-> "parseMoney", type |-> "number", s |-> n,
                value |-> parseMoneyOfNumber(n)]
  /\ UNCHANGED <<raw, filtered, totals, buckets, typeSummary, filters, rollingCredit,
                 pc, utcOffset>>

\* what the parser process prints before its JSON payload, the payload, and
\* what it prints after it
LogsBefore == {<<>>, <<"p", "a", "g", "e", " ", "1", " ", "o", "f", " ", "2", "\n">>, <<"[", "I", "N", "F", "O", "]", " ", "p", "a", "r", "s", "i", "n", "g", "\n">>, <<"w", "a", "r", "n", ":", " ", "{", "x", "}", "\n">>}

Payloads ==
  {<<"{", "\"", "r", "o", "w", "s", "\"", ":", "[", "1", ",", "2", "]", "}">>, <<"[", "{", "\"", "a", "\"", ":", "\"", "b", "\"", "}", ",", " ", "2", "]">>, <<"{", "\"", "a", "\"", ":", "\"", "}", "\"", "}">>, <<"[", "\"", "[", "x", "\"", "]">>, <<"{", "}">>, <<"[", "]">>,
   <<"{", "\"", "t", "\"", ":", "[", " ", "]", ",", "\"", "m", "\"", ":", "{", "\"", "k", "\"", ":", "n", "u", "l", "l", "}", "}">>}

LogsAfter == {<<>>, <<"\n", "d", "o", "n", "e">>, <<"\n", "[", "d", "o", "n", "e", "]">>, <<" ", "}">>}

\* parseOutput(output) called directly
CallParseOutput(before, payload, after) ==
  /\ UNCHANGED uploadVars
  /\ result = NoCall
  /\ result' = [fn |-> "parseOutput", before |-> before, payload |-> payload,
                after |-> after, value |-> parseOutput(before \o payload \o after)]
  /\ UNCHANGED <<raw, filtered, totals, buckets, typeSummary, filters, rollingCredit,
                 pc, utcOffset>>

\* the helper functions called directly, one call per behaviour
NextHelpers ==
  \/ \E rows \in ListsOf(HelperRows, MaxRows), q \in Queries : CallApplySearch(rows, q)
  \/ \E rows \in ListsOf(HelperRows, MaxRows), sortBy \in SortKeys : CallSortRows(rows, sortBy)
  \/ \E a \in ValueDates, b \in ValueDates : CallPeriodKeys(a, b)
  \/ \E remarks \in RemarksTexts : CallClassifyType(remarks)
  \/ \E s \in DateTexts : CallToISO(s)
  \/ \E s \in MoneyTexts : CallParseMoney(s)
  \/ \E n \in MoneyNumbers : CallParseMoneyOfNumber(n)
  \/ \E before \in LogsBefore, payload \in Payloads, after \in LogsAfter :
       CallParseOutput(before, payload, after)

SpecHelpers == Init /\ [][NextHelpers]_vars

---------------------------------------------------------------------------
(* Upload: the parser store, handleUpload and the parse route *)

PasswordPhrase == <<"P", "l", "e", "a", "s", "e", " ", "p", "r", "o", "v", "i", "d", "e", " ", "a", " ", "p", "a", "s", "s", "w", "o", "r", "d">>

PdfFile == [kind |-> "file", name |-> "statement.pdf", type |-> "application/pdf"]
TextFile == [kind |-> "file", name |-> "notes.txt", type |-> "text/plain"]

\* a value of the parser's JSON that JavaScript reads as false
FalsyJSON(v) == v = undefined \/ v \in {<<"n", "u", "l", "l">>, <<"f", "a", "l", "s", "e">>, <<"0">>, <<"\"", "\"">>}

\* the members of the object whose first member name starts at i: the
\* positions <<name start, name end, value start, value end>> of each
RECURSIVE MembersFrom(_, _)
MemberAt(s, i, k) == <<i + 1, k - 2, k + 1, ValueEnd(s, k + 1) - 1>>

MembersAfter(s, m) ==
  {m} \cup (IF CharAt(s, m[4] + 1) = "," THEN MembersFrom(s, m[4] + 2) ELSE {})

MembersFrom(s, i) ==
  IF CharAt(s, i) # "\"" THEN {} ELSE MembersAfter(s, MemberAt(s, i, StringEnd(s, i + 1)))

\* the members of a parsed object, none for any other value
Members(v) == IF CharAt(v, 1) = "{" THEN MembersFrom(v, 2) ELSE {}

\* key in v, for an object or an array v
HasKey(v, key) == \E m \in Members(v) : SubSeq(v, m[1], m[2]) = key

\* v[key]: the value of the last member of that name, undefined when none
Member(v, key) ==
  IF ~HasKey(v, key) THEN undefined
  ELSE LET m == CHOOSE m \in Members(v) :
                  /\ SubSeq(v, m[1], m[2]) = key
                  /\ \A n \in Members(v) : SubSeq(v, n[1], n[2]) = key => n[1] <= m[1]
       IN SubSeq(v, m[3], m[4])

\* v || d
OrJSON(v, d) == IF FalsyJSON(v) THEN d ELSE v

---------------------------------------------------------------------------
(* The parse route: POST *)

ErrorReply(status, msg) == [status |-> status, error |-> msg]

\* the response of the validation, status 0 when the form passes it
ValidationReply(form) ==
  IF "file" \notin DOMAIN form THEN ErrorReply(400, <<"N", "o", " ", "f", "i", "l", "e", " ", "u", "p", "l", "o", "a", "d", "e", "d">>)
  ELSE IF Falsy(Field(form, "bank")) THEN ErrorReply(400, <<"N", "o", " ", "b", "a", "n", "k", " ", "s", "e", "l", "e", "c", "t", "e", "d">>)
  ELSE IF form.file.type # "application/pdf"
    THEN ErrorReply(400, <<"I", "n", "v", "a", "l", "i", "d", " ", "f", "i", "l", "e", " ", "t", "y", "p", "e", ".", " ", "P", "l", "e", "a", "s", "e", " ", "u", "p", "l", "o", "a", "d", " ", "a", " ", "P", "D", "F", ".">>)
  ELSE [status |-> 0]

\* const password = (formData.get("password") as string) || ""
PasswordOf(form) == OrElse(Field(form, "password"), <<>>)

\* the arguments of the parser process after the script and the temp path
ParserArgs(form) ==
  <<<<"-", "-", "b", "a", "n", "k">>, toLowerCase(form.bank)>>
  \o (IF PasswordOf(form) # <<>> THEN <<<<"-", "-", "p", "a", "s", "s", "w", "o", "r", "d">>, PasswordOf(form)>> ELSE <<>>)

ShapeError == ErrorReply(500, <<"P", "a", "r", "s", "e", "r", " ", "r", "e", "t", "u", "r", "n", "e", "d", " ", "u", "n", "e", "x", "p", "e", "c", "t", "e", "d", " ", "s", "h", "a", "p", "e", ".">>)

\* the very light validation of the parsed output; the in operator throws a
\* TypeError on a string, a number or true, which the outer catch reports
ShapeReply(jsonData) ==
  IF FalsyJSON(jsonData) THEN ShapeError
  ELSE IF CharAt(jsonData, 1) \notin {"{", "["}
    THEN ErrorReply(500, <<"F", "a", "i", "l", "e", "d", " ", "t", "o", " ", "p", "a", "r", "s", "e", " ", "P", "D", "F", ":", " ", "C", "a", "n", "n", "o", "t", " ", "u", "s", "e", " ", "'", "i", "n", "'", " ", "o", "p", "e", "r", "a", "t", "o", "r">>)
  ELSE IF ~HasKey(jsonData, <<"t", "r", "a", "n", "s", "a", "c", "t", "i", "o", "n", "s">>) \/ ~HasKey(jsonData, <<"m", "e", "t", "a">>)
          \/ ~HasKey(jsonData, <<"c", "h", "e", "c", "k", "s">>)
    THEN ShapeError
  ELSE [status |-> 200, json |-> jsonData]

\* Parse stdout as a ParseResponse
OutputReply(v) ==
  IF v \in {SyntaxError, NoStartError, NoEndError}
  THEN [status |-> 500, error |-> <<"I", "n", "v", "a", "l", "i", "d", " ", "d", "a", "t", "a", " ", "r", "e", "t", "u", "r", "n", "e", "d", " ", "f", "r", "o", "m", " ", "p", "a", "r", "s", "e", "r">>, details |-> v]
  ELSE ShapeReply(v)

\* the response the try block returns for the result of spawnSync
RunReply(res) ==
  IF ~Falsy(res.error)
    THEN ErrorReply(500, <<"F", "a", "i", "l", "e", "d", " ", "t", "o", " ", "e", "x", "e", "c", "u", "t", "e", " ", "P", "y", "t", "h", "o", "n", " ", "s", "c", "r", "i", "p", "t", ":", " ">> \o res.error)
  ELSE IF res.status # 0
    THEN (IF includes(res.stderr, PasswordPhrase)
          THEN ErrorReply(400, <<"E", "n", "c", "r", "y", "p", "t", "e", "d", " ", "P", "D", "F", " ", "d", "e", "t", "e", "c", "t", "e", "d", ".", " ", "P", "l", "e", "a", "s", "e", " ", "p", "r", "o", "v", "i", "d", "e", " ", "a", " ", "p", "a", "s", "s", "w", "o", "r", "d", ".">>)
          ELSE ErrorReply(500, <<"P", "y", "t", "h", "o", "n", " ", "s", "c", "r", "i", "p", "t", " ", "f", "a", "i", "l", "e", "d", ":", " ">> \o res.stderr))
  ELSE OutputReply(parseOutput(OrElse(res.stdout, <<"{", "}">>)))

\* what spawnSync can return: the process could not be run, it exited with
\* a status other than 0, or it exited with 0 and some output
SpawnResults ==
  {[error |-> <<"s", "p", "a", "w", "n", "S", "y", "n", "c", " ", "p", "y", "t", "h", "o", "n", " ", "E", "N", "O", "E", "N", "T">>, status |-> -1, stderr |-> <<>>, stdout |-> <<>>]}
  \cup {[error |-> null, status |-> 1, stderr |-> e, stdout |-> <<>>] :
          e \in {<<"V", "a", "l", "u", "e", "E", "r", "r", "o", "r", ":", " ", "P", "l", "e", "a", "s", "e", " ", "p", "r", "o", "v", "i", "d", "e", " ", "a", " ", "p", "a", "s", "s", "w", "o", "r", "d", " ", "f", "o", "r", " ", "t", "h", "i", "s", " ", "P", "D", "F">>,
                 <<"V", "a", "l", "u", "e", "E", "r", "r", "o", "r", ":", " ", "I", "n", "c", "o", "r", "r", "e", "c", "t", " ", "p", "a", "s", "s", "w", "o", "r", "d">>}}
  \cup {[error |-> null, status |-> 0, stderr |-> <<>>, stdout |-> o] :
          o \in {<<"o", "k", "\n", "{", "\"", "m", "e", "t", "a", "\"", ":", "{", "\"", "n", "\"", ":", "1", "}", ",", "\"", "t", "r", "a", "n", "s", "a", "c", "t", "i", "o", "n", "s", "\"", ":", "[", "2", "]", ",", " ", "\"", "c", "h", "e", "c", "k", "s", "\"", ":", "[", "3", "]", "}", "\n">>,
                 <<"{", "\"", "m", "e", "t", "a", "\"", ":", "n", "u", "l", "l", ",", "\"", "t", "r", "a", "n", "s", "a", "c", "t", "i", "o", "n", "s", "\"", ":", "n", "u", "l", "l", ",", "\"", "c", "h", "e", "c", "k", "s", "\"", ":", "0", "}">>,
                 <<"[", "I", "N", "F", "O", "]", "\n", "{", "\"", "m", "e", "t", "a", "\"", ":", "{", "}", ",", "\"", "t", "r", "a", "n", "s", "a", "c", "t", "i", "o", "n", "s", "\"", ":", "[", "]", ",", "\"", "c", "h", "e", "c", "k", "s", "\"", ":", "[", "]", "}">>,
                 <<"{", "\"", "r", "o", "w", "s", "\"", ":", "[", "]", "}">>, <<"\"", "d", "o", "n", "e", "\"">>, <<"T", "r", "a", "c", "e", "b", "a", "c", "k">>, <<>>}}

\* the handler that skips its finally block when the try block answers 500
PcAfterTrySkipsFinally(reply) == IF reply.status = 500 THEN "respond" ELSE "finally"

\* where the handler continues after the try block returned: its finally
PcAfterTry(reply) == "finally"

\* the handler about to return reply, before the try block was entered
Returning(req, reply) ==
  [pc |-> "respond", form |-> req.form, to |-> req.from, wrote |-> FALSE,
   spawned |-> FALSE, unlinkTried |-> FALSE, reply |-> reply]

\* the request is taken up: validation, then the upload is written to the
\* temp path; writeFile may be rejected, leaving no file or a part of it,
\* and the outer catch answers
RoutePost ==
  /\ request # NoRequest
  /\ route = IdleRoute
  /\ response = NoResponse
  /\ request' = NoRequest
  /\ IF ValidationReply(request.form).status # 0
     THEN /\ route' = Returning(request, ValidationReply(request.form))
          /\ UNCHANGED tempFile
     ELSE \/ /\ tempFile' = "whole"
             /\ route' = [pc |-> "try", form |-> request.form, to |-> request.from,
                          wrote |-> TRUE, spawned |-> FALSE, unlinkTried |-> FALSE]
          \/ /\ tempFile' \in {"none", "part"}
             /\ route' = Returning(request,
                                   ErrorReply(500, <<"F", "a", "i", "l", "e", "d", " ", "t", "o", " ", "p", "a", "r", "s", "e", " ", "P", "D", "F", ":", " ", "E", "N", "O", "S", "P", "C">>))
  /\ UNCHANGED <<analysisVars, parserVars, rendered, upload, response>>

\* each result of spawnSync with the response the try block returns for it
SpawnOutcomes == {[result |-> res, reply |-> RunReply(res)] : res \in SpawnResults}

\* the try block: the parser process is run and the response is chosen
RouteRun ==
  /\ route.pc = "try"
  /\ \E o \in SpawnOutcomes :
       route' = [pc |-> PcAfterTry(o.reply), form |-> route.form, to |-> route.to,
                 wrote |-> TRUE, spawned |-> TRUE, unlinkTried |-> FALSE,
                 args |-> ParserArgs(route.form), result |-> o.result,
                 reply |-> o.reply]
  /\ UNCHANGED <<analysisVars, parserVars, rendered, upload, request, tempFile, response>>

\* the finally block: unlink(tempPath), whose failure is only logged
RouteUnlink ==
  /\ route.pc = "finally"
  /\ tempFile' \in {"none", tempFile}
  /\ route' = [route EXCEPT !.pc = "respond", !.unlinkTried = TRUE]
  /\ UNCHANGED <<analysisVars, parserVars, rendered, upload, request, response>>

\* the handler returns: its response is produced
RouteRespond ==
  /\ route.pc = "respond"
  /\ response = NoResponse
  /\ response' = route.reply @@ [to |-> route.to]
  /\ route' = IdleRoute
  /\ UNCHANGED <<analysisVars, parserVars, rendered, upload, request, tempFile>>

---------------------------------------------------------------------------
(* The parser store and handleUpload *)

\* what a render of the hook reads from the store
Snapshot ==
  [file |-> file, bank |-> bank, password |-> password,
   showPasswordInput |-> showPasswordInput]

\* the component renders again after the store changed
Render ==
  /\ rendered # Snapshot
  /\ rendered' = Snapshot
  /\ UNCHANGED <<analysisVars, parserVars, upload, request, route, tempFile, response>>

\* onDrop: setFile(acceptedFiles[0])
SetFile(f) ==
  /\ file' = f
  /\ UNCHANGED <<bank, data, loading, error, password, showPasswordInput, meta, checks>>
  /\ UNCHANGED <<analysisVars, rendered, upload, request, route, tempFile, response>>

SetBank(b) ==
  /\ bank' = b
  /\ UNCHANGED <<file, data, loading, error, password, showPasswordInput, meta, checks>>
  /\ UNCHANGED <<analysisVars, rendered, upload, request, route, tempFile, response>>

\* the password input, which is rendered only while the prompt is shown
SetPassword(p) ==
  /\ rendered.showPasswordInput
  /\ password' = p
  /\ UNCHANGED <<file, bank, data, loading, error, showPasswordInput, meta, checks>>
  /\ UNCHANGED <<analysisVars, rendered, upload, request, route, tempFile, response>>

\* the form data with the stored password whenever there is one
FormDataWithStoredPassword(f, b, shown, pw) ==
  IF ~Falsy(pw)
  THEN [file |-> f, bank |-> b, password |-> pw]
  ELSE [file |-> f, bank |-> b]

\* the form data of the upload: the password only if the prompt was shown
\* and a password was entered
FormData(f, b, shown, pw) ==
  IF shown /\ ~Falsy(pw)
  THEN [file |-> f, bank |-> b, password |-> pw]
  ELSE [file |-> f, bank |-> b]

\* a guard of handleUpload fails: setError(msg); return
Refuse(msg) ==
  /\ error' = msg
  /\ UNCHANGED <<file, bank, data, loading, password, showPasswordInput, meta, checks>>
  /\ UNCHANGED <<upload, request>>

\* handleUpload passes its guards: up to the await of fetch
StartFetch(via) ==
  /\ loading' = TRUE
  /\ error' = <<>>
  /\ showPasswordInput' = FALSE
  /\ request' = [kind |-> "post", from |-> "handler",
                 form |-> FormData(rendered.file, rendered.bank,
                                   rendered.showPasswordInput, rendered.password)]
  /\ upload' = [pc |-> "fetch", via |-> via, shown |-> rendered.showPasswordInput,
                password |-> rendered.password]
  /\ UNCHANGED <<file, bank, data, password, meta, checks>>

\* handleUpload, called from the last render, up to its first await
HandleUploadVia(via) ==
  /\ upload.pc = "none"
  /\ request = NoRequest /\ route = IdleRoute /\ response = NoResponse
  /\ IF rendered.file = NoFile THEN Refuse(<<"N", "o", " ", "f", "i", "l", "e", " ", "u", "p", "l", "o", "a", "d", "e", "d">>)
     ELSE IF Falsy(rendered.bank) THEN Refuse(<<"P", "l", "e", "a", "s", "e", " ", "s", "e", "l", "e", "c", "t", " ", "a", " ", "b", "a", "n", "k">>)
     ELSE StartFetch(via)
  /\ UNCHANGED <<analysisVars, rendered, route, tempFile, response>>

HandleUpload == HandleUploadVia("submit")

\* handleRetryWithPassword: handleUpload if a password is entered and the
\* prompt is shown
HandleRetryWithPassword ==
  /\ ~Falsy(rendered.password)
  /\ rendered.showPasswordInput
  /\ HandleUploadVia("retry")

\* the catch block, then finally
Catch(msg) ==
  /\ error' = msg
  /\ data' = EmptyList
  /\ meta' = null
  /\ checks' = EmptyList
  /\ loading' = FALSE
  /\ UNCHANGED <<file, bank, password, showPasswordInput>>

\* the password prompt that leaves loading as it is
PromptKeepsLoading(errMsg) ==
  /\ showPasswordInput' = TRUE
  /\ error' = errMsg
  /\ UNCHANGED <<file, bank, data, loading, password, meta, checks>>

\* the password prompt, then finally
Prompt(errMsg) ==
  /\ showPasswordInput' = TRUE
  /\ error' = errMsg
  /\ loading' = FALSE
  /\ UNCHANGED <<file, bank, data, password, meta, checks>>

\* a response that is not OK, handled without the test for the prompt
NotOkAlwaysThrows(errMsg) == Catch(errMsg)

\* a response that is not OK
NotOk(errMsg) == IF includes(errMsg, PasswordPhrase) THEN Prompt(errMsg) ELSE Catch(errMsg)

\* the bodies of the OK responses of the route
OkBodies == {o.reply.json : o \in {x \in SpawnOutcomes : x.reply.status = 200}}

\* what handleUpload stores for each of them: data.transactions || [],
\* data.meta || null, data.checks || []
Stored ==
  [json \in OkBodies |->
     [data |-> OrJSON(Member(json, <<"t", "r", "a", "n", "s", "a", "c", "t", "i", "o", "n", "s">>), EmptyList),
      meta |-> OrJSON(Member(json, <<"m", "e", "t", "a">>), null),
      checks |-> OrJSON(Member(json, <<"c", "h", "e", "c", "k", "s">>), EmptyList)]]

\* an OK response, then finally
Accept(json) ==
  /\ data' = Stored[json].data
  /\ meta' = Stored[json].meta
  /\ checks' = Stored[json].checks
  /\ loading' = FALSE
  /\ UNCHANGED <<file, bank, error, password, showPasswordInput>>

\* the fetch is rejected: the request never reaches the route
FetchRejects ==
  /\ upload.pc = "fetch"
  /\ request # NoRequest
  /\ request' = NoRequest
  /\ upload' = [pc |-> "none"]
  /\ Catch(<<"F", "a", "i", "l", "e", "d", " ", "t", "o", " ", "f", "e", "t", "c", "h">>)
  /\ UNCHANGED <<analysisVars, rendered, route, tempFile, response>>

\* the fetch is answered: res.json(), then the rest of handleUpload
HandleResponse ==
  /\ upload.pc = "fetch"
  /\ response # NoResponse
  /\ response.to = "handler"
  /\ response' = NoResponse
  /\ upload' = [pc |-> "none"]
  /\ IF "html" \in DOMAIN response THEN Catch(<<"U", "n", "e", "x", "p", "e", "c", "t", "e", "d", " ", "t", "o", "k", "e", "n", " ", "<", " ", "i", "n", " ", "J", "S", "O", "N", " ", "a", "t", " ", "p", "o", "s", "i", "t", "i", "o", "n", " ", "0">>)
     ELSE IF response.status # 200
       THEN NotOk(OrElse(Field(response, "error"), <<"F", "a", "i", "l", "e", "d", " ", "t", "o", " ", "p", "a", "r", "s", "e", " ", "f", "i", "l", "e", ".", " ", "U", "n", "k", "n", "o", "w", "n", " ", "e", "r", "r", "o", "r", ".">>))
     ELSE Accept(response.json)
  /\ UNCHANGED <<analysisVars, rendered, request, route, tempFile>>

\* a gateway answers in place of the route, with a page that is no JSON
GatewayAnswers ==
  /\ upload.pc = "fetch"
  /\ request # NoRequest
  /\ request' = NoRequest
  /\ response' = [status |-> 502, html |-> TRUE, to |-> "handler"]
  /\ UNCHANGED <<analysisVars, parserVars, rendered, upload, route, tempFile>>

\* forms another client posts to the route
ClientForms ==
  {[bank |-> <<"G", "T", "B">>], [file |-> PdfFile], [file |-> PdfFile, bank |-> <<>>],
   [file |-> TextFile, bank |-> <<"G", "T", "B">>],
   [file |-> PdfFile, bank |-> <<"G", "T", "B">>, password |-> <<>>]}

\* a request of another client
Post(form) ==
  /\ request = NoRequest /\ route = IdleRoute /\ response = NoResponse
  /\ upload.pc = "none"
  /\ request' = [kind |-> "post", from |-> "client", form |-> form]
  /\ UNCHANGED <<analysisVars, parserVars, rendered, upload, route, tempFile, response>>

\* the other client receives its response
ClientReceives ==
  /\ response # NoResponse
  /\ response.to = "client"
  /\ response' = NoResponse
  /\ UNCHANGED <<analysisVars, parserVars, rendered, upload, request, route, tempFile>>

Banks == {<<>>, <<"G", "T", "B">>}
Passwords == {<<>>, <<"p", "w">>}

NextUpload ==
  \/ \E f \in {PdfFile} : SetFile(f)
  \/ \E b \in Banks : SetBank(b)
  \/ \E p \in Passwords : SetPassword(p)
  \/ Render
  \/ HandleUpload
  \/ HandleRetryWithPassword
  \/ FetchRejects
  \/ GatewayAnswers
  \/ HandleResponse
  \/ \E form \in ClientForms : Post(form)
  \/ ClientReceives
  \/ RoutePost
  \/ RouteRun
  \/ RouteUnlink
  \/ RouteRespond

SpecUpload == Init /\ [][NextUpload]_vars

\* the route handler runs on, and a response that arrives is handled
SpecUploadFair ==
  /\ SpecUpload
  /\ WF_vars(RoutePost) /\ WF_vars(RouteRun) /\ WF_vars(RouteUnlink)
  /\ WF_vars(RouteRespond) /\ WF_vars(HandleResponse)

---------------------------------------------------------------------------
(* Properties *)

\* the derived fields of the store
Derived == <<filtered, totals, buckets, typeSummary, rollingCredit>>

SnapshotOf(sorted, mode, rolling) ==
  <<sorted, Totals(sorted), Buckets(sorted, mode), TypeSummary(sorted), rolling>>

\* the derived fields that one recompute of (rawv, f) gives a store in its
\* initial state
FreshSnapshot(rawv, f) ==
  IF rawv = <<>>
  THEN <<<<>>, ZeroTotals, <<>>, ZeroTypeSummary, ZeroRollingCredit>>
  ELSE SnapshotOf(Filtered(rawv, f), f.bucket, RollingCredit(rawv))

\* the calendar date N - 1 days before the date M
DaysBefore(M, N) == IsoOf(CivilFromDays(DayNumber(M) - (N - 1)))

\* C1: whenever raw is empty once setRaw has returned, filtered is [], totals
\* are all zero, buckets is [] and the seven rollingCredit values are 0.
EmptyRawZeroesDerived ==
  (pc = "idle" /\ raw = <<>>)
    => /\ filtered = <<>>
       /\ totals = ZeroTotals
       /\ buckets = <<>>
       /\ rollingCredit = ZeroRollingCredit

\* C2: no step shows new raw rows or new filters together with derived fields
\* of the previous ones: whenever a step changes raw or filters, the derived
\* fields after that step are those of the new raw and filters.
InputsAndDerivedChangeTogether ==
  [][((raw' # raw \/ filters' # filters) /\ ~RecomputeThrows(raw'))
       => Derived' = FreshSnapshot(raw', filters')]_vars

\* C3: once a setter has returned, rollingCredit is the value computed over all
\* raw rows, whatever the filters are (so setFilters, which leaves raw alone,
\* leaves rollingCredit alone).
RollingCreditIsOfAllRaw ==
  (pc = "idle" /\ ~RecomputeThrows(raw))
    => rollingCredit = IF raw = <<>> THEN ZeroRollingCredit ELSE RollingCredit(raw)

\* C4: once a setter has returned, the derived fields are a function of the
\* current raw and filters only: they are what one recompute of them gives,
\* whatever was loaded before.
DerivedIsOfCurrentInputs ==
  (pc = "idle" /\ ~RecomputeThrows(raw)) => Derived = FreshSnapshot(raw, filters)

\* C5: if no raw row has a transaction date that normalizes, then under every
\* preset and custom range the date stage passes every row: filtered is exactly
\* the rows of raw that match the search query.
NoTxnDatePassesAllRows ==
  (pc = "idle" /\ ~AnyISO(raw))
    => filtered = sortRows(applySearch(raw, filters.search), filters.sortBy)

\* C5 happens: no transaction date normalizes, a custom range with a start
\* date is active, and the search keeps some rows and drops others
NoTxnDateUnderCustomRange ==
  /\ pc = "idle"
  /\ raw # <<>>
  /\ ~AnyISO(raw)
  /\ filters.preset = "custom"
  /\ ~Falsy(Field(filters, "customFrom"))
  /\ filtered # <<>>
  /\ Len(filtered) < Len(raw)

\* C6: with preset all and an empty search, a row whose transaction date does
\* not normalize is still in filtered: filtered is raw and totals.rows is
\* raw.length, also when other rows do have dates.
UndatedRowsCountUnderAll ==
  (pc = "idle" /\ filters.preset = "all" /\ filters.search = <<>>
     /\ ~RecomputeThrows(raw))
    => (filtered = raw /\ totals.rows = Len(raw))

\* the N of the presets last30, last60, last90, last180
PresetDays(preset) ==
  CASE preset = "last30" -> 30
    [] preset = "last60" -> 60
    [] preset = "last90" -> 90
    [] preset = "last180" -> 180

\* the rows whose normalized transaction date d has from <= d <= to
TxnDateBetween(rawv, from, to) ==
  SelectSeq(rawv, LAMBDA r : InWindow(toISO(Field(r, "TXN_DATE")), from, to))

\* C7: with preset lastN and a transaction date that normalizes, the rows that
\* pass the date stage are exactly those whose normalized transaction date d
\* has M - (N-1) days <= d <= M, M the greatest normalized transaction date.
LastNWindowIsExact ==
  (pc = "idle" /\ filters.preset \in {"last30", "last60", "last90", "last180"}
     /\ AnyISO(raw) /\ ~RecomputeThrows(raw))
    => filtered =
         sortRows(applySearch(TxnDateBetween(raw,
                                             DaysBefore(endOfDataISO(raw),
                                                        PresetDays(filters.preset)),
                                             endOfDataISO(raw)),
                              filters.search),
                  filters.sortBy)

\* the credit of the rows whose value date v has A - (W-1) days <= v <= A
CreditOfWindow(rawv, W, A) ==
  IF Falsy(A) THEN Fin(0) ELSE CreditBetween(rawv, DaysBefore(A, W), A)

\* C8: for W in {30, 90, 180}, totalW is the sum of the credit of the raw rows
\* whose normalized value date v has A - (W-1) days <= v <= A, A the greatest
\* normalized transaction date; 0 when no transaction date normalizes.
WindowTotalsAreExact ==
  (pc = "idle" /\ raw # <<>> /\ ~RecomputeThrows(raw))
    => /\ rollingCredit.total30 = CreditOfWindow(raw, 30, endOfDataISO(raw))
       /\ rollingCredit.total90 = CreditOfWindow(raw, 90, endOfDataISO(raw))
       /\ rollingCredit.total180 = CreditOfWindow(raw, 180, endOfDataISO(raw))

\* the arithmetic mean of a list of finite numbers, 0 for the empty list
MeanOf(finite) ==
  IF finite = <<>> THEN Fin(0)
  ELSE FDiv(SumOver(finite, LAMBDA x : x), Len(finite))

\* C9: avg30 = total30 / 1, avg90 = total90 / 3, avg180 = total180 / 6, and
\* combinedAvg is the mean of those of the three averages that are finite (a
\* non-finite one is left out of the sum and of the denominator), 0 when none is.
CombinedAvgIsMeanOfFinite ==
  (pc = "idle" /\ raw # <<>> /\ ~RecomputeThrows(raw))
    => /\ rollingCredit.avg30 = FDiv(rollingCredit.total30, 1)
       /\ rollingCredit.avg90 = FDiv(rollingCredit.total90, 3)
       /\ rollingCredit.avg180 = FDiv(rollingCredit.total180, 6)
       /\ rollingCredit.combinedAvg =
            MeanOf(SelectSeq(<<rollingCredit.avg30, rollingCredit.avg90,
                               rollingCredit.avg180>>, isFinite))

\* C10: in every state of the store totals.net is totals.credit - totals.debit,
\* and for empty input credit, debit and net are 0.
NetIsCreditMinusDebit ==
  /\ totals.net = FSub(totals.credit, totals.debit)
  /\ (pc = "idle" /\ raw = <<>>)
       => (totals.debit = Fin(0) /\ totals.credit = Fin(0) /\ totals.net = Fin(0))

\* C10 happens: a recompute has summed debits and credits to a net that is not 0
NetOfDebitsAndCredits ==
  /\ pc = "idle"
  /\ isFinite(totals.debit) /\ totals.debit.v > 0
  /\ isFinite(totals.credit) /\ totals.credit.v > 0
  /\ totals.net # Fin(0)

\* the Check flag of r is "true" in some mix of upper and lower case
CheckIsTrue(r) ==
  /\ Len(Field(r, "Check")) = 4
  /\ Field(r, "Check")[1] \in {"t", "T"}
  /\ Field(r, "Check")[2] \in {"r", "R"}
  /\ Field(r, "Check")[3] \in {"u", "U"}
  /\ Field(r, "Check")[4] \in {"e", "E"}

\* C11: in every state 0 <= totals.passRatio <= 1; passRatio is the number of
\* filtered rows whose Check flag is "true" in any case, divided by
\* totals.rows, and 0 when totals.rows is 0.
PassRatioIsShareOfTrueChecks ==
  /\ isFinite(totals.passRatio)
  /\ totals.passRatio.v >= 0
  /\ totals.passRatio.v <= Unit
  /\ totals.rows = 0 => totals.passRatio = Fin(0)
  /\ totals.rows # 0 =>
       totals.passRatio =
         Fin((Cardinality({i \in 1..Len(filtered) : CheckIsTrue(filtered[i])}) * Unit)
             \div totals.rows)

\* C11 happens: of two filtered rows one passes, with its flag in upper case
PassRatioOfOneHalf ==
  /\ pc = "idle"
  /\ totals.rows = 2
  /\ totals.passRatio = Fin(Unit \div 2)
  /\ \E i \in 1..Len(filtered) : Field(filtered[i], "Check") = <<"T", "R", "U", "E">>

\* row a has the fields of row b, with the same values
SameFields(a, b) == \A k \in DOMAIN b : Field(a, k) = b[k]

\* C12: once a setter has returned, filtered is a sub-collection of raw: its
\* rows correspond one to one to distinct raw rows with the same field values,
\* so filtered.length <= raw.length.
FilteredIsSubCollectionOfRaw ==
  pc = "idle"
    => /\ Len(filtered) <= Len(raw)
       /\ \E f \in [1..Len(filtered) -> 1..Len(raw)] :
            /\ \A i, j \in 1..Len(filtered) : i # j => f[i] # f[j]
            /\ \A i \in 1..Len(filtered) : SameFields(filtered[i], raw[f[i]])

\* the whitespace-separated tokens of q: its maximal runs of non-space characters
TokenSet(q) ==
  {SubSeq(q, i, j) : i \in 1..Len(q), j \in 1..Len(q)} \cap
  {SubSeq(q, ij[1], ij[2]) :
     ij \in {p \in (1..Len(q)) \X (1..Len(q)) :
               /\ p[1] <= p[2]
               /\ \A k \in p[1]..p[2] : ~IsSpace(q[k])
               /\ (p[1] = 1 \/ IsSpace(q[p[1] - 1]))
               /\ (p[2] = Len(q) \/ IsSpace(q[p[2] + 1]))}}

\* t occurs in s
IsSubstring(t, s) == \E i \in 0..(Len(s) - Len(t)) : SubSeq(s, i + 1, i + Len(t)) = t

\* REMARKS, sep and REFERENCE of r put together, in lower case; a missing field
\* counts as empty
JoinedFields(r, sep) ==
  toLowerCase((IF "REMARKS" \in DOMAIN r THEN r.REMARKS ELSE <<>>) \o sep
              \o (IF "REFERENCE" \in DOMAIN r THEN r.REFERENCE ELSE <<>>))

\* the rows, in input order, in which every token of q occurs
RowsWithEveryToken(rows, q, sep) ==
  SelectSeq(rows, LAMBDA r : \A t \in TokenSet(toLowerCase(q)) :
                               IsSubstring(t, JoinedFields(r, sep)))

\* C13 as stated: applySearch returns, in input order, the rows in which every
\* token of q, lowercased, is a substring of the lowercased concatenation of
\* REMARKS and REFERENCE.
SearchMatchesConcatenation ==
  result.fn = "applySearch"
    => result.value = RowsWithEveryToken(result.rows, result.q, <<>>)

\* C13, amended: applySearch returns, in input order, the rows in which every
\* token of q, lowercased, is a substring of the lowercased REMARKS and
\* REFERENCE joined by one space (so no token matches across the two fields);
\* an empty or blank q returns all rows.
SearchMatchesSpaceJoinedFields ==
  result.fn = "applySearch"
    => result.value = RowsWithEveryToken(result.rows, result.q, <<" ">>)

\* C13 happens: a query of two tokens keeps a row and rejects a row that has
\* only one of them
SearchRejectsRowLackingOneToken ==
  /\ result.fn = "applySearch"
  /\ Cardinality(TokenSet(toLowerCase(result.q))) = 2
  /\ result.value # <<>>
  /\ \E i \in 1..Len(result.rows) :
       /\ \A j \in 1..Len(result.value) : result.value[j] # result.rows[i]
       /\ \E t \in TokenSet(toLowerCase(result.q)) :
            IsSubstring(t, JoinedFields(result.rows[i], <<" ">>))

\* the normalized transaction date of r as a string, a null date as ""
DateKey(r) ==
  IF toISO(Field(r, "TXN_DATE")) = null THEN <<>> ELSE toISO(Field(r, "TXN_DATE"))

\* rows a, b may stand in this order under sortBy
InOrder(a, b, sortBy) ==
  CASE sortBy = "largestCredit" -> Credit(a).v >= Credit(b).v
    [] sortBy = "largestDebit" -> Debit(a).v >= Debit(b).v
    [] sortBy = "txnDateAsc" -> ~StrLess(DateKey(b), DateKey(a))
    [] sortBy = "txnDateDesc" -> ~StrLess(DateKey(a), DateKey(b))
    [] OTHER -> TRUE

\* out is rows rearranged by p, in the order of sortBy, rows that may stand in
\* either order keeping their input order
SortedBy(out, rows, sortBy, p) ==
  /\ \A i, j \in 1..Len(rows) : i # j => p[i] # p[j]
  /\ \A i \in 1..Len(rows) : SameFields(out[i], rows[p[i]])
  /\ \A i, j \in 1..Len(rows) :
       i < j => /\ InOrder(out[i], out[j], sortBy)
                /\ InOrder(out[j], out[i], sortBy) => p[i] < p[j]

\* C14: sortRows returns a permutation of its input; none keeps the input
\* order, largestCredit / largestDebit order by parsed amount non-increasing,
\* txnDateAsc / txnDateDesc by normalized transaction date as a string with a
\* null date as "", and rows with equal keys keep their input order.
SortRowsIsStablePermutation ==
  result.fn = "sortRows"
    => /\ Len(result.value) = Len(result.rows)
       /\ result.sortBy = "none" => result.value = result.rows
       /\ \E p \in [1..Len(result.rows) -> 1..Len(result.rows)] :
            SortedBy(result.value, result.rows, result.sortBy, p)

\* C14 happens: sorting by ascending date moves an undated row in front of a
\* dated one
SortMovesUndatedRowFirst ==
  /\ result.fn = "sortRows"
  /\ result.sortBy = "txnDateAsc"
  /\ Len(result.rows) = 2
  /\ DateKey(result.rows[1]) # <<>>
  /\ DateKey(result.rows[2]) = <<>>
  /\ SameFields(result.value[1], result.rows[2])

\* the year text and the month number of a normalized date
YearText(iso) == SubSeq(iso, 1, 4)
MonthNumber(iso) == CHOOSE m \in 1..12 : MonthTexts[m] = SubSeq(iso, 6, 7)

\* the odd month that starts the pair of months holding month m
PairStart(m) == IF m % 2 = 1 THEN m ELSE m - 1

\* the quarter of month m: m / 3 rounded up
QuarterOf(m) == (m + 2) \div 3

\* the labels of the claim for year text y and month m
PeriodLabels(y, m) ==
  [monthly |-> y \o <<"-">> \o MonthTexts[m],
   biMonthly |-> y \o <<"-">> \o MonthTexts[PairStart(m)] \o <<".", ".">>
                 \o y \o <<"-">> \o MonthTexts[PairStart(m) + 1],
   quarterly |-> y \o <<" ", "Q">> \o <<DigitChars[QuarterOf(m) + 1]>>]

\* labels ka, kb of dates a, b agree exactly when a and b lie in the same
\* calendar period: the same year and the same month, pair or quarter
SamePeriodIffSameLabel(a, b, ka, kb) ==
  /\ (ka.monthly = kb.monthly)
       <=> (YearText(a) = YearText(b) /\ MonthNumber(a) = MonthNumber(b))
  /\ (ka.biMonthly = kb.biMonthly)
       <=> (YearText(a) = YearText(b)
            /\ PairStart(MonthNumber(a)) = PairStart(MonthNumber(b)))
  /\ (ka.quarterly = kb.quarterly)
       <=> (YearText(a) = YearText(b)
            /\ QuarterOf(MonthNumber(a)) = QuarterOf(MonthNumber(b)))

\* C15: for a normalized date of year Y and month m in 1..12 the monthly key is
\* Y-mm, the biMonthly key Y-ss..Y-ee with s the odd month of the pair holding
\* m and e = s + 1 <= 12, the quarterly key 'Y Qn' with n = m / 3 rounded up in
\* 1..4; two dates get the same label iff they lie in the same period.
PeriodKeysAreCalendarPeriods ==
  result.fn = "periodKeys"
    => /\ \A i \in 1..2 :
            /\ result.value[i] =
                 PeriodLabels(YearText(result.isos[i]), MonthNumber(result.isos[i]))
            /\ PairStart(MonthNumber(result.isos[i])) + 1 <= 12
            /\ QuarterOf(MonthNumber(result.isos[i])) \in 1..4
       /\ SamePeriodIffSameLabel(result.isos[1], result.isos[2],
                                 result.value[1], result.value[2])

\* C15 happens: 2025-03-10 and 2025-04-05 both get the label 2025-03..2025-04
MarchAndAprilShareAPair ==
  /\ result.fn = "periodKeys"
  /\ result.isos = <<<<"2", "0", "2", "5", "-", "0", "3", "-", "1", "0">>, <<"2", "0", "2", "5", "-", "0", "4", "-", "0", "5">>>>
  /\ result.value[1].biMonthly = <<"2", "0", "2", "5", "-", "0", "3", ".", ".", "2", "0", "2", "5", "-", "0", "4">>
  /\ result.value[2].biMonthly = <<"2", "0", "2", "5", "-", "0", "3", ".", ".", "2", "0", "2", "5", "-", "0", "4">>

\* the shape of a label: monthly YYYY-MM, biMonthly YYYY-MM..YYYY-MM,
\* quarterly 'YYYY Qn'; "other" for All and anything else
LabelMode(l) ==
  IF Len(l) = 7 /\ l[5] = "-" THEN "monthly"
  ELSE IF Len(l) = 16 /\ l[5] = "-" THEN "biMonthly"
  ELSE IF Len(l) >= 7 /\ l[5] = " " /\ l[6] = "Q" THEN "quarterly"
  ELSE "other"

\* the number after the year in a label: its month, its first month, its quarter
LabelNumber(l) ==
  IF LabelMode(l) = "quarterly" THEN DigitsVal(SubSeq(l, 7, Len(l)))
  ELSE DigitsVal(SubSeq(l, 6, 7))

\* l is the label of a calendar period
DenotesPeriod(l) ==
  CASE LabelMode(l) = "monthly" -> LabelNumber(l) \in 1..12
    [] LabelMode(l) = "biMonthly" -> LabelNumber(l) \in {1, 3, 5, 7, 9, 11}
    [] LabelMode(l) = "quarterly" -> LabelNumber(l) \in 1..4
    [] OTHER -> FALSE

\* the place of the period of l in time: periods of one mode are ordered by it
PeriodIndex(l) == DigitsVal(SubSeq(l, 1, 4)) * 12 + LabelNumber(l)

\* C16: buckets holds at most one bucket per label and is sorted ascending by
\* label; for the labels of one mode that order is the chronological order of
\* the periods they denote.
BucketsSortedAndChronological ==
  \A i, j \in 1..Len(buckets) :
    i < j => /\ StrLess(buckets[i].label, buckets[j].label)
             /\ (DenotesPeriod(buckets[i].label) /\ DenotesPeriod(buckets[j].label))
                  => PeriodIndex(buckets[i].label) < PeriodIndex(buckets[j].label)

\* C16 happens: the row of June 2025 comes first in raw, and second in buckets
\* after the row of the last quarter of 2024
BucketsReorderedAcrossYears ==
  /\ pc = "idle"
  /\ Len(raw) = 2
  /\ raw[1] = RowTransferIn
  /\ Len(buckets) = 2
  /\ buckets[1].label = <<"2", "0", "2", "4", " ", "Q", "4">>
  /\ buckets[2].label = <<"2", "0", "2", "5", " ", "Q", "2">>

\* the label of the bucket of row r under mode: the period key of its value
\* date, "All" when that date does not normalize or the mode is none
LabelOfRow(r, mode) ==
  IF mode \notin {"monthly", "biMonthly", "quarterly"}
       \/ toISO(Field(r, "VAL_DATE")) = null
  THEN <<"A", "l", "l">>
  ELSE PeriodKeys(toISO(Field(r, "VAL_DATE")))[mode]

\* the filtered rows assigned to the bucket labelled l under mode
RowsOfBucket(l, mode) == SelectSeq(filtered, LAMBDA r : LabelOfRow(r, mode) = l)

\* C17: after a recompute every filtered row is counted in exactly one bucket,
\* the one labelled with the period key of its value date, or "All" when the
\* value date does not normalize or the mode is none; under mode none a
\* non-empty filtered set has exactly one bucket, "All".
RowsBucketedByValueDate ==
  (pc = "idle")
    => /\ \A i \in 1..Len(filtered) :
            Cardinality({j \in 1..Len(buckets) :
                           buckets[j].label = LabelOfRow(filtered[i], filters.bucket)}) = 1
       /\ \A j \in 1..Len(buckets) :
            buckets[j].rows = Len(RowsOfBucket(buckets[j].label, filters.bucket))
       /\ (filters.bucket = "none" /\ filtered # <<>>)
            => (Len(buckets) = 1 /\ buckets[1].label = <<"A", "l", "l">>)

\* C17 happens: under mode monthly a row lies in the bucket of its value date,
\* not in that of the month of its transaction date, next to a bucket "All"
RowBucketedOutsideItsTxnMonth ==
  /\ pc = "idle"
  /\ filters.bucket = "monthly"
  /\ \E i \in 1..Len(filtered) :
       /\ toISO(Field(filtered[i], "VAL_DATE")) # null
       /\ toISO(Field(filtered[i], "TXN_DATE")) # null
       /\ monthKey(toISO(Field(filtered[i], "VAL_DATE")))
            # monthKey(toISO(Field(filtered[i], "TXN_DATE")))
       /\ \E j \in 1..Len(buckets) :
            buckets[j].label = monthKey(toISO(Field(filtered[i], "VAL_DATE")))
  /\ \E j \in 1..Len(buckets) : buckets[j].label = <<"A", "l", "l">>

\* the number of the rows whose amount is not zero
CountNonZero(rows, Amount(_)) ==
  Cardinality({i \in 1..Len(rows) : Amount(rows[i]) # Fin(0)})

\* bucket b sums and counts the rows assigned to it
BucketSumsRows(b, rows) ==
  /\ b.debit = SumOver(rows, LAMBDA r : parseMoney(Field(r, "DEBIT")))
  /\ b.credit = SumOver(rows, LAMBDA r : parseMoney(Field(r, "CREDIT")))
  /\ b.net = FSub(b.credit, b.debit)
  /\ b.rows = Len(rows)
  /\ b.rows >= 1
  /\ b.debitCount = CountNonZero(rows, LAMBDA r : parseMoney(Field(r, "DEBIT")))
  /\ b.creditCount = CountNonZero(rows, LAMBDA r : parseMoney(Field(r, "CREDIT")))
  /\ b.debitCount <= b.rows
  /\ b.creditCount <= b.rows

\* C18: for each bucket, debit and credit are the sums of the parsed DEBIT and
\* CREDIT of the rows assigned to it, net = credit - debit, rows is their
\* number (>= 1), debitCount / creditCount are the numbers of those rows whose
\* parsed debit / credit is not zero, so both are <= rows.
BucketsSumTheirRows ==
  (pc = "idle")
    => \A j \in 1..Len(buckets) :
         BucketSumsRows(buckets[j], RowsOfBucket(buckets[j].label, filters.bucket))

\* C18 happens: a bucket of two rows, one with a debit and no credit, one with
\* a credit and no debit
BucketOfOneDebitAndOneCredit ==
  /\ pc = "idle"
  /\ \E j \in 1..Len(buckets) :
       /\ buckets[j].rows = 2
       /\ buckets[j].debitCount = 1
       /\ buckets[j].creditCount = 1
       /\ buckets[j].net # Fin(0)

\* the lowercased remarks, empty when there are none
LowerRemarks(remarks) == toLowerCase(IF remarks = undefined THEN <<>> ELSE remarks)

\* t starts s
IsPrefix(t, s) == Len(t) <= Len(s) /\ SubSeq(s, 1, Len(t)) = t

\* the types in the order of their rules
RuleOrder == <<"levy", "pos", "airtime", "data", "transferIn", "transferOut", "other">>

\* the rule of type t matches the lowercased remarks r
RuleMatches(t, r) ==
  CASE t = "levy" -> IsSubstring(<<"e", "l", "e", "c", "t", "r", "o", "n", "i", "c", " ", "m", "o", "n", "e", "y", " ", "t", "r", "a", "n", "s", "f", "e", "r", " ", "l", "e", "v", "y">>, r)
    [] t = "pos" -> IsPrefix(<<"p", "o", "s", " ">>, r) \/ IsSubstring(<<"c", "a", "r", "d", " ", "p", "a", "y", "m", "e", "n", "t", "-", "p", "o", "s">>, r)
    [] t = "airtime" -> IsSubstring(<<"a", "i", "r", "t", "i", "m", "e">>, r)
    [] t = "data" -> IsSubstring(<<"m", "o", "b", "i", "l", "e", " ", "d", "a", "t", "a">>, r) \/ IsSubstring(<<" ", "d", "a", "t", "a">>, r)
    [] t = "transferIn" -> IsPrefix(<<"t", "r", "a", "n", "s", "f", "e", "r", " ", "f", "r", "o", "m">>, r) \/ IsSubstring(<<"r", "e", "c", "e", "i", "v", "e", "d", " ", "f", "r", "o", "m">>, r)
    [] t = "transferOut" -> IsPrefix(<<"t", "r", "a", "n", "s", "f", "e", "r", " ", "t", "o">>, r) \/ IsPrefix(<<"s", "e", "n", "d", " ", "t", "o">>, r)
    [] t = "other" -> TRUE

\* C19: classifyType returns the type of the first rule, in the order levy,
\* pos, airtime, data, transferIn, transferOut, that matches the lowercased
\* remarks, and other when none matches; the result is one of the seven types.
ClassifyTypeIsFirstMatchingRule ==
  (result.fn = "classifyType")
    => /\ result.value \in {RuleOrder[i] : i \in 1..7}
       /\ \E i \in 1..7 :
            /\ result.value = RuleOrder[i]
            /\ RuleMatches(RuleOrder[i], LowerRemarks(result.remarks))
            /\ \A j \in 1..(i - 1) : ~RuleMatches(RuleOrder[j], LowerRemarks(result.remarks))

\* C19 happens: 'POS purchase airtime vendor' matches the pos rule and the
\* airtime rule and is classified pos
PosPurchaseOfAirtimeIsPos ==
  /\ result.fn = "classifyType"
  /\ result.remarks = <<"P", "O", "S", " ", "p", "u", "r", "c", "h", "a", "s", "e", " ", "a", "i", "r", "t", "i", "m", "e", " ", "v", "e", "n", "d", "o", "r">>
  /\ RuleMatches("pos", LowerRemarks(result.remarks))
  /\ RuleMatches("airtime", LowerRemarks(result.remarks))
  /\ result.value = "pos"

\* s is written YYYY-MM-DD and names a day of the calendar
IsCalendarDate(s) ==
  /\ Len(s) = 10
  /\ \A i \in {1, 2, 3, 4, 6, 7, 9, 10} : IsDigit(s[i])
  /\ s[5] = "-" /\ s[8] = "-"
  /\ DigitsVal(SubSeq(s, 6, 7)) \in 1..12
  /\ DigitsVal(SubSeq(s, 9, 10)) >= 1
  /\ DigitsVal(SubSeq(s, 9, 10))
       <= DaysInMonth(DigitsVal(SubSeq(s, 1, 4)), DigitsVal(SubSeq(s, 6, 7)))

\* C20: toISO returns null or a string YYYY-MM-DD that is a valid calendar
\* date (month 01..12, a day that exists in that month), and never throws.
ToISOIsNullOrCalendarDate ==
  (result.fn = "toISO")
    => /\ result.value # RangeError
       /\ result.value = null \/ IsCalendarDate(result.value)

\* toISO never throws
ToISONeverThrows == (result.fn = "toISO") => result.value # RangeError

\* s is written YYYY-MM-DD
HasISOForm(s) ==
  /\ Len(s) = 10
  /\ \A i \in {1, 2, 3, 4, 6, 7, 9, 10} : IsDigit(s[i])
  /\ s[5] = "-" /\ s[8] = "-"

\* C21: toISO is idempotent: an input already written YYYY-MM-DD is returned
\* unchanged, and a result r other than null satisfies toISO(r) = r.
ToISOIsIdempotent ==
  (result.fn = "toISO")
    => /\ (~Falsy(result.s) /\ HasISOForm(result.s)) => result.value = result.s
       /\ result.value # null
            => (HasISOForm(result.value) /\ toISO(result.value) = result.value)

\* C21 happens: a date written "5 Sept 2025" is normalized to a string that
\* toISO leaves as it is
NormalizedDateIsFixed ==
  /\ result.fn = "toISO"
  /\ result.s = <<"5", " ", "S", "e", "p", "t", " ", "2", "0", "2", "5">>
  /\ result.value = <<"2", "0", "2", "5", "-", "0", "9", "-", "0", "5">>
  /\ toISO(result.value) = result.value

\* C22: parseMoney returns a finite number for every string, number, null or
\* undefined: 0 for null, undefined and the empty string, 1234.50 for
\* '₦1,234.50', and n for a number n.
ParseMoneyIsFinite ==
  (result.fn = "parseMoney")
    => /\ isFinite(result.value)
       /\ (result.type = "string" /\ Falsy(result.s)) => result.value = Fin(0)
       /\ (result.type = "string" /\ ~Falsy(result.s) /\ result.s = <<"₦", "1", ",", "2", "3", "4", ".", "5", "0">>)
            => result.value = Fin(1234 * Unit + Unit \div 2)
       /\ (result.type = "number" /\ isFinite(result.s)) => result.value = result.s

\* parseMoney of a string, null or undefined is finite
ParseMoneyOfTextIsFinite ==
  (result.fn = "parseMoney" /\ result.type = "string") => isFinite(result.value)

\* C23: recompute, and so setRaw and setFilters, runs to completion without
\* throwing for every list of raw rows and every filter value: no step of
\* recompute is one in which it throws.
RecomputeNeverThrows ==
  [][(pc = "recompute" /\ pc' = "idle" /\ raw # <<>>)
       => ~RecomputeThrows(raw)]_vars

\* a bound of the custom range is set: neither undefined nor empty
BoundIsSet(d) == d # undefined /\ d # <<>>

\* the transaction date of r normalizes and lies within the bounds that are set
WithinBounds(iso, from, to) ==
  /\ iso # null
  /\ BoundIsSet(from) => ~StrLess(iso, from)
  /\ BoundIsSet(to) => ~StrLess(to, iso)

\* row r passes the custom range from..to
PassesCustomRange(r, from, to) ==
  IF ~BoundIsSet(from) /\ ~BoundIsSet(to) THEN TRUE
  ELSE WithinBounds(toISO(Field(r, "TXN_DATE")), from, to)

\* the filters without their custom bounds
WithoutCustomBounds(f) == [k \in DOMAIN f \ {"customFrom", "customTo"} |-> f[k]]

\* C26: with preset custom and some raw row whose transaction date
\* normalizes, a row passes the date stage iff no bound is set, or its date
\* normalizes and lies within the bounds that are set; under any other preset
\* customFrom and customTo have no effect.
CustomRangeFiltersByBounds ==
  (pc = "idle" /\ \E i \in 1..Len(raw) : toISO(Field(raw[i], "TXN_DATE")) # null)
    => /\ (filters.preset = "custom")
            => filtered = SelectSeq(raw, LAMBDA r :
                 PassesCustomRange(r, Field(filters, "customFrom"),
                                   Field(filters, "customTo")))
       /\ (filters.preset # "custom")
            => filtered = Filtered(raw, WithoutCustomBounds(filters))

\* C26 happens: a custom range with only its upper bound set keeps one dated
\* row and drops a later one
CustomRangeKeepsSomeRows ==
  /\ pc = "idle"
  /\ filters.preset = "custom"
  /\ ~BoundIsSet(Field(filters, "customFrom"))
  /\ BoundIsSet(Field(filters, "customTo"))
  /\ Len(filtered) = 1 /\ Len(raw) = 2
  /\ toISO(Field(raw[1], "TXN_DATE")) # null
  /\ toISO(Field(raw[2], "TXN_DATE")) # null

RECURSIVE CountSum(_)
\* the sum of a sequence of counts
CountSum(s) == IF s = <<>> THEN 0 ELSE Head(s) + CountSum(Tail(s))

RECURSIVE AmountSum(_)
\* the sum of a sequence of amounts
AmountSum(s) == IF s = <<>> THEN Fin(0) ELSE FAdd(Head(s), AmountSum(Tail(s)))

\* one field of every bucket, and of the summary of every type
BucketColumn(field) == [j \in 1..Len(buckets) |-> buckets[j][field]]
TypeColumn(field) == [i \in 1..7 |-> typeSummary[RuleOrder[i]][field]]

\* C27: after a recompute the three summaries partition the same filtered set:
\* the bucket rows, the type rows, totals.rows and filtered.length are equal,
\* and so are the bucket debits, the type debits and totals.debit, and likewise
\* the credits (amounts far from the largest finite number).
SummariesPartitionFiltered ==
  (pc = "idle")
    => /\ CountSum(BucketColumn("rows")) = Len(filtered)
       /\ CountSum(TypeColumn("rows")) = Len(filtered)
       /\ totals.rows = Len(filtered)
       /\ AmountSum(BucketColumn("debit")) = totals.debit
       /\ AmountSum(TypeColumn("debit")) = totals.debit
       /\ AmountSum(BucketColumn("credit")) = totals.credit
       /\ AmountSum(TypeColumn("credit")) = totals.credit

\* C27 happens: two filtered rows lie in two buckets and two types, with a
\* debit and a credit
TwoRowsInTwoBucketsAndTypes ==
  /\ pc = "idle"
  /\ Len(filtered) = 2
  /\ Len(buckets) = 2
  /\ Cardinality({i \in 1..7 : typeSummary[RuleOrder[i]].rows = 1}) = 2
  /\ totals.debit # Fin(0)
  /\ totals.credit # Fin(0)

\* the text holds none of the characters the bracket scan counts
HasNoBracket(s) == \A i \in 1..Len(s) : s[i] \notin {"{", "}", "[", "]"}

\* C24: for stdout made of log text, one well-formed JSON object or array and
\* log text, parseOutput returns the value of the payload, whatever characters
\* the log text and the payload's strings contain.
ParseOutputReturnsPayload ==
  (result.fn = "parseOutput") => result.value = JSONparse(result.payload)

\* parseOutput returns the payload when the log text holds no brace and no
\* bracket and the payload's strings hold none either
ParseOutputOfPlainLogs ==
  (/\ result.fn = "parseOutput"
   /\ HasNoBracket(result.before) /\ HasNoBracket(result.after)
   /\ result.payload \notin {<<"{", "\"", "a", "\"", ":", "\"", "}", "\"", "}">>, <<"[", "\"", "[", "x", "\"", "]">>})
    => result.value = JSONparse(result.payload)

\* the form fails the validation of the route: no file, no bank, or a file
\* that is no PDF
FailsValidation(form) ==
  \/ "file" \notin DOMAIN form
  \/ "bank" \notin DOMAIN form
  \/ form.bank = <<>>
  \/ form.file.type # "application/pdf"

\* C25: for every POST that wrote the upload to the temp path, the handler
\* has attempted to delete the temp file when its response is produced,
\* whatever the outcome; a request that fails the validation is answered 400
\* with no temp file written and the parser not run.
TempFileUnlinkedBeforeResponse ==
  (route.pc = "respond")
    => /\ route.wrote => route.unlinkTried
       /\ FailsValidation(route.form)
            => (route.reply.status = 400 /\ ~route.wrote /\ ~route.spawned)
       /\ route.spawned => route.wrote

\* C25 happens: the parser asked for a password, the route is about to answer
\* 400, and the temp file has been deleted
TempFileDeletedOnPasswordPrompt ==
  /\ route.pc = "respond"
  /\ route.spawned
  /\ route.reply.status = 400
  /\ route.unlinkTried
  /\ tempFile = "none"

\* text s contains the phrase the parser and the route use to ask for a
\* password
AsksForPassword(s) ==
  \E i \in 0..(Len(s) - Len(PasswordPhrase)) :
    SubSeq(s, i + 1, i + Len(PasswordPhrase)) = PasswordPhrase

\* the response the handler is about to read tells it that a password is
\* needed
ResponseAsksForPassword ==
  /\ response # NoResponse
  /\ "html" \notin DOMAIN response
  /\ response.status # 200
  /\ "error" \in DOMAIN response
  /\ AsksForPassword(response.error)

ResponseIsOk ==
  /\ response # NoResponse
  /\ "html" \notin DOMAIN response
  /\ response.status = 200

\* a call of handleUpload that awaited its fetch ends in this step
UploadEnds == upload.pc = "fetch" /\ upload'.pc = "none"

\* C28: when the parser process exits non-zero with stderr containing
\* 'Please provide a password', the route answers 400 with an error that
\* contains the phrase, and handleUpload ends with showPasswordInput = true,
\* error = that message, loading = false and data, meta and checks
\* unchanged; on any other response that is not OK and on a thrown exception
\* it ends with showPasswordInput = false, error set, loading = false,
\* data = [], meta = null and checks = [].
PasswordPromptProtocol ==
  /\ []((route.pc \in {"finally", "respond"} /\ route.spawned
         /\ route.result.error = null /\ route.result.status # 0
         /\ AsksForPassword(route.result.stderr))
        => (route.reply.status = 400 /\ AsksForPassword(route.reply.error)))
  /\ [][UploadEnds =>
          IF ResponseAsksForPassword
          THEN /\ showPasswordInput' = TRUE
               /\ error' = response.error
               /\ loading' = FALSE
               /\ UNCHANGED <<data, meta, checks>>
          ELSE ResponseIsOk
               \/ /\ showPasswordInput' = FALSE
                  /\ error' # <<>>
                  /\ loading' = FALSE
                  /\ data' = EmptyList
                  /\ meta' = null
                  /\ checks' = EmptyList]_vars

\* C28 happens: an upload that had shown transactions ended with the
\* password prompt, and the transactions are still there
PromptShownOverEarlierData ==
  /\ upload.pc = "none"
  /\ showPasswordInput
  /\ AsksForPassword(error)
  /\ ~loading
  /\ data # EmptyList

\* the form carries a password
CarriesPassword(form) == "password" \in DOMAIN form

\* C30: the request of handleUpload carries the password if and only if, in
\* the render from which handleUpload was invoked, showPasswordInput was true
\* and password was non-empty, although the store's showPasswordInput is
\* already false when the form data are built; every retry sends the
\* password, an upload started while the prompt is not shown sends none even
\* if a password is stored, and the route passes --password to the parser
\* exactly for the requests that carry one.
PasswordSentIffPromptShown ==
  /\ (request # NoRequest /\ request.from = "handler")
       => /\ upload.pc = "fetch"
          /\ ~showPasswordInput
          /\ CarriesPassword(request.form) <=> (upload.shown /\ upload.password # <<>>)
          /\ CarriesPassword(request.form) => request.form.password = upload.password
          /\ upload.via = "retry" => CarriesPassword(request.form)
          /\ ~upload.shown => ~CarriesPassword(request.form)
  /\ (route.pc \in {"finally", "respond"} /\ route.spawned)
       => /\ Len(route.args) \in {2, 4}
          /\ Len(route.args) = 4
               <=> (CarriesPassword(route.form) /\ route.form.password # <<>>)
          /\ Len(route.args) = 4
               => (route.args[3] = <<"-", "-", "p", "a", "s", "s", "w", "o", "r", "d">> /\ route.args[4] = route.form.password)

\* C30 happens: an upload started while the prompt is not shown is on its
\* way without a password although one is stored
StoredPasswordNotSent ==
  /\ request # NoRequest
  /\ request.from = "handler"
  /\ ~upload.shown
  /\ upload.password # <<>>
  /\ password # <<>>
  /\ ~CarriesPassword(request.form)

\* a retry is on its way with the password
RetrySendsPassword ==
  /\ request # NoRequest
  /\ request.from = "handler"
  /\ upload.via = "retry"
  /\ CarriesPassword(request.form)

\* a call of handleUpload passes its guards in this step
UploadStarts == upload.pc = "none" /\ upload'.pc = "fetch"

\* a call of handleUpload stops at one of its guards in this step: no other
\* step changes error while no upload awaits its fetch
UploadRefused == upload.pc = "none" /\ upload'.pc = "none" /\ error' # error

\* what a step of handleUpload does to loading, error and the request
UploadStepSetsLoading ==
  /\ UploadStarts
       => (/\ rendered.file # NoFile /\ rendered.bank # <<>>
           /\ loading' = TRUE
           /\ error' = <<>>
           /\ request = NoRequest /\ request' # NoRequest)
  /\ UploadEnds => (loading' = FALSE)
  /\ UploadRefused
       => (/\ rendered.file = NoFile \/ rendered.bank = <<>>
           /\ error' = (IF rendered.file = NoFile THEN <<"N", "o", " ", "f", "i", "l", "e", " ", "u", "p", "l", "o", "a", "d", "e", "d">>
                        ELSE <<"P", "l", "e", "a", "s", "e", " ", "s", "e", "l", "e", "c", "t", " ", "a", " ", "b", "a", "n", "k">>)
           /\ request' = NoRequest
           /\ UNCHANGED <<loading, data, meta, checks>>)

\* C29: a handleUpload call that passes the guards (file and bank set) sets
\* loading = true and clears error before the request and, the fetch
\* settling, eventually sets loading = false on every path; a call with no
\* file or no bank only sets error ('No file uploaded' or 'Please select a
\* bank'), sends no request and leaves loading, data, meta and checks
\* unchanged.
UploadEndsLoading ==
  /\ [][UploadStepSetsLoading]_vars
  /\ (upload.pc = "fetch") ~> (upload.pc = "none" /\ loading = FALSE)

\* C29 happens: the response of an upload that passed the guards has
\* arrived, and loading is still true
ResponseArrivedWhileLoading ==
  /\ upload.pc = "fetch"
  /\ loading
  /\ error = <<>>
  /\ response # NoResponse

\* a call was stopped at the bank guard
UploadRefusedForBank ==
  /\ upload.pc = "none"
  /\ error = <<"P", "l", "e", "a", "s", "e", " ", "s", "e", "l", "e", "c", "t", " ", "a", " ", "b", "a", "n", "k">>
  /\ request = NoRequest

=============================================================================
